---- MODULE Spec2Model ----
(***************************************************************************)
(* A model of the coordination plane of lazabot:                           *)
(*   - tasks/manager.rs   TaskManager (bounded concurrent task executor)   *)
(*   - proxy/manager.rs   ProxyManager (round-robin pool with health bits) *)
(*   - core/monitor.rs    MonitorTask::run (availability-change events)    *)
(* Each subsystem has its own specification (SpecTM, SpecProxy,            *)
(* SpecMonitor); the variables of the other subsystems stay at their       *)
(* initial values.  Every atomic operation of the code (an atomic load or  *)
(* store, one DashMap call, one semaphore call, one lock section) is one   *)
(* step, so that every interleaving of a multi-threaded runtime is a       *)
(* behaviour.                                                              *)
(***************************************************************************)
EXTENDS Integers, Sequences, FiniteSets, TLC

VARIABLES
    \* ---- TaskManager (tasks/manager.rs:100-115)
    max_concurrent,   \* TaskManager.max_concurrent
    permits,          \* available permits of TaskManager.semaphore
    task_store,       \* TaskManager.task_store : TaskId -> TaskResult
    task_id_counter,  \* TaskManager.task_id_counter
    shutdownFlag,     \* TaskManager.shutdown (AtomicBool)
    task_handles,     \* keys of TaskManager.task_handles
    subscribed,       \* receivers created by shutdown_tx.subscribe()
    rxmsg,            \* receivers holding the undelivered shutdown message
    aborted,          \* join handles on which abort() was called
    wpc,              \* position of each spawned worker
    holds,            \* workers holding a semaphore permit
    outcome,          \* what execute() returned to a worker
    checked,          \* submit_task calls between the flag check and fetch_add
    cpc,              \* position of the submit_task call that was given each id
    refused,          \* submit_task calls that returned Err
    submits,          \* number of submit_task calls started
    issued,           \* ids returned by fetch_add, in the order of the fetch_adds
    spc,              \* position of the shutdown() call
    remaining_tasks,  \* shutdown()'s local remaining_tasks
    startedInShutdown, \* tasks stored Running while the shutdown flag was set
    \* ---- ProxyManager (proxy/manager.rs:11-20)
    proxies,          \* ProxyManager.proxies, each proxy named by its "host:port"
    current_index,    \* ProxyManager.current_index
    health_status,    \* ProxyManager.health_status : proxy_id -> bool
    ppc,              \* position of each get_next_proxy caller
    attempts,         \* get_next_proxy's local attempts
    current_idx,      \* get_next_proxy's local current_idx
    last_returned,    \* what the get_next_proxy call that returned last returned
    ncalls,           \* get_next_proxy calls started
    nreturned,        \* get_next_proxy calls that returned
    stayedHealthy,    \* per call: the ids whose bit was true during the whole call
    pristine,         \* no two calls overlapped and no bit was ever false
    \* ---- MonitorTask (core/monitor.rs:45-52, 124-174)
    is_running,       \* MonitorTask.is_running
    max_retries,      \* MonitorConfig.max_retries
    mpc,              \* position of MonitorTask::run
    last_availability, \* run's local last_availability: <<>> is None, <<b>> is Some(b)
    attempt,          \* check_with_retry's loop variable
    nticks,           \* ticks of interval_timer so far
    obs,              \* the successful observations, in order
    emitted,          \* the events handed to event_sender.send, in order
    event_sender,     \* the channel MonitorTask.event_sender belongs to
    channel,          \* the events queued in the channel made by add_monitor
    stop_returned,    \* a MonitorTask::stop() call has returned
    \* ---- ApiClient (api/client.rs:72-76, 141-189)
    retry_config,     \* ApiClient.retry_config
    hpc,              \* position of the request() call
    http_attempt,     \* execute_with_retry's loop variable attempt
    http_delay,       \* execute_with_retry's local delay
    http_last_error,  \* execute_with_retry's local last_error
    http_result,      \* what request() returned: <<>> while it runs
    http_trace,       \* how each attempt ended, in order
    http_slept,       \* the durations passed to sleep, in order
    \* ---- CheckoutEngine (core/checkout.rs:190-194, 223-325)
    checkout_config,  \* CheckoutEngine.config
    session_is_valid, \* session.is_valid of the session given to instant_checkout
    copc,             \* position of instant_checkout: the step it is at
    co_attempt,       \* the loop variable attempt of the current *_with_retry
    co_delay,         \* the local delay of the current *_with_retry
    captcha_token,    \* instant_checkout's local captcha_token
    solver_args,      \* the (site_key, page_url) the solver is called with
    captcha_detection, \* detect_and_solve_captcha's parsed CaptchaDetectionResponse
    co_log,           \* requests issued, steps succeeded and sleeps, in order
    co_result,        \* the CheckoutResult returned: <<>> while it runs
    \* ---- the crypto envelopes (config/encryption.rs, core/session.rs:404-444)
    envelope,         \* which envelope is used: "config" or "session"
    epc,              \* idle, sealed, opened
    env_plaintext,    \* the plaintext given to seal
    sealed,           \* the output of seal
    presented,        \* what is handed to open
    altered_at,       \* the place of the altered byte of presented, 0 for none
    opened,           \* the result of open: <<>> before it
    \* ---- SessionManager (core/session.rs:76-80, 217-264, 360-372)
    files,            \* the files of sessions_dir: <<>> absent, <<bytes>> present
    swpc,             \* position of each caller of persist_session / delete_session
    session_file,     \* persist_session's local session_file (the session id)
    w_encrypted_data, \* persist_session's local encrypted_data
    persisting,       \* the session given to the persist_session call in progress
    nops,             \* persist_session and delete_session calls started
    rpc,              \* position of the restore_session call
    r_session_id,     \* restore_session's argument
    r_encrypted_data, \* restore_session's local encrypted_data
    restored,         \* the result of restore_session: <<>> while it runs
    r_expect,         \* the session last persisted, if its file was left alone since
    stable,           \* per file: the session whose persist wrote it last
    \* ProxyManager, one caller making its calls one after the other
    returned,         \* what each get_next_proxy call returned, in call order
    examined,         \* how many proxies the last call examined
    partial_health,   \* every call so far saw the pool [A:1, B:2, C:3] with only B:2 unhealthy
    \* ---- MonitorEngine (core/monitor.rs:272-330) and the receivers handed out
    engine_is_running, \* MonitorEngine.is_running
    added,            \* add_monitor was called with the monitor
    abort_requested,  \* stop() called abort() on the monitor's join handle
    received,         \* the events taken from the receiver add_monitor returned
    own_receiver,     \* the receiver get_event_receiver returned: none, handed, closed
    own_from,         \* the number of events emitted before get_event_receiver
    \* ---- Session objects in memory and validate_session (core/session.rs:37-75, 267-323)
    live,             \* the Session objects made by Session::new, per session id
    utc_now,          \* the reading of chrono::Utc::now()
    vpc,              \* per session: where validate_session stands
    \* ---- SessionManager::cleanup_expired_sessions (core/session.rs:375-401)
    sweep_pc,         \* where the sweep stands: idle, restore, delete, done
    cutoff_time,      \* now - max_age_days (line 377)
    sessions,         \* the ids list_sessions returned (line 379)
    sweep_at,         \* the place of the for loop in sessions (line 381)
    arm,              \* the arm of the match taken for the current id
    cleaned_count,    \* line 376
    start_mark,       \* the directory and the writers when the sweep began
    \* ---- Database, the tasks table (storage/database.rs:101-112, 201-326)
    tasks,            \* the rows of the tasks table, by task_id
    db_now,           \* the reading of Utc::now()
    db_ops,           \* insert, update and delete calls made
    \* ---- CaptchaSolver::poll_result (captcha/solver.rs:128-179)
    poll_pc,          \* where the call stands: "idle", "request", "sleep", "returned"
    poll_attempt,     \* the loop variable attempt
    poll_log,         \* what each result request came back with, in order
    poll_slept,       \* seconds spent in sleep(POLLING_INTERVAL)
    poll_result       \* what poll_result returned, None before it returns

tmVars == <<max_concurrent, permits, task_store, task_id_counter, shutdownFlag,
            task_handles, subscribed, rxmsg, aborted, wpc, holds, outcome,
            checked, cpc, refused, submits, issued, spc,
            remaining_tasks, startedInShutdown>>

proxyVars == <<proxies, current_index, health_status, ppc, attempts,
               current_idx, last_returned, ncalls, nreturned, stayedHealthy, pristine>>

monVars == <<is_running, max_retries, mpc, last_availability, attempt, nticks,
             obs, emitted, event_sender, channel, stop_returned>>

httpVars == <<retry_config, hpc, http_attempt, http_delay, http_last_error,
              http_result, http_trace, http_slept>>

checkoutVars == <<checkout_config, session_is_valid, copc, co_attempt, co_delay,
                  captcha_token, solver_args, captcha_detection, co_log, co_result>>

envelopeVars == <<envelope, epc, env_plaintext, sealed, presented, altered_at, opened>>

sessionVars == <<files, swpc, session_file, w_encrypted_data, persisting, nops, rpc,
                 r_session_id, r_encrypted_data, restored, r_expect, stable>>

seqVars == <<returned, examined, partial_health>>

engineVars == <<engine_is_running, added, abort_requested, received,
                own_receiver, own_from>>

validateVars == <<live, utc_now, vpc>>

sweepVars == <<sweep_pc, cutoff_time, sessions, sweep_at, arm, cleaned_count, start_mark>>

dbVars == <<tasks, db_now, db_ops>>

pollVars == <<poll_pc, poll_attempt, poll_log, poll_slept, poll_result>>

vars == <<tmVars, proxyVars, monVars, httpVars, checkoutVars, envelopeVars, sessionVars, seqVars, engineVars, validateVars, sweepVars, dbVars, pollVars>>

notTM == <<proxyVars, monVars, httpVars, checkoutVars, envelopeVars, sessionVars, seqVars, engineVars, validateVars, sweepVars, dbVars, pollVars>>
notProxy == <<tmVars, monVars, httpVars, checkoutVars, envelopeVars, sessionVars, seqVars, engineVars, validateVars, sweepVars, dbVars, pollVars>>
notMon == <<tmVars, proxyVars, httpVars, checkoutVars, envelopeVars, sessionVars, seqVars, engineVars, validateVars, sweepVars, dbVars, pollVars>>
notHttp == <<tmVars, proxyVars, monVars, checkoutVars, envelopeVars, sessionVars, seqVars, engineVars, validateVars, sweepVars, dbVars, pollVars>>
notCheckout == <<tmVars, proxyVars, monVars, httpVars, envelopeVars, sessionVars, seqVars, engineVars, validateVars, sweepVars, dbVars, pollVars>>
notEnvelope == <<tmVars, proxyVars, monVars, httpVars, checkoutVars, sessionVars, seqVars, engineVars, validateVars, sweepVars, dbVars, pollVars>>
notSession == <<tmVars, proxyVars, monVars, httpVars, checkoutVars, envelopeVars, seqVars, engineVars, validateVars, sweepVars, dbVars, pollVars>>
notProxyNorSeq == <<tmVars, monVars, httpVars, checkoutVars, envelopeVars, sessionVars, engineVars, validateVars, sweepVars, dbVars, pollVars>>
notMonNorEngine == <<tmVars, proxyVars, httpVars, checkoutVars, envelopeVars, sessionVars, seqVars, validateVars, sweepVars, dbVars, pollVars>>
notValidate == <<tmVars, proxyVars, monVars, httpVars, checkoutVars, envelopeVars, sessionVars, seqVars, engineVars, sweepVars, dbVars, pollVars>>
notSweep == <<tmVars, proxyVars, monVars, httpVars, checkoutVars, envelopeVars, sessionVars, seqVars, engineVars, validateVars, dbVars, pollVars>>
notSessionNorSweep == <<tmVars, proxyVars, monVars, httpVars, checkoutVars, envelopeVars, seqVars, engineVars, validateVars, dbVars, pollVars>>
notDb == <<tmVars, proxyVars, monVars, httpVars, checkoutVars, envelopeVars, sessionVars, seqVars, engineVars, validateVars, sweepVars, pollVars>>
notPoll == <<tmVars, proxyVars, monVars, httpVars, checkoutVars, envelopeVars, sessionVars, seqVars, engineVars, validateVars, sweepVars, dbVars>>

----------------------------------------------------------------------------
(* Bounds of the model *)

\* submit_task calls made in one behaviour
MaxTasks == 2
\* largest max_concurrent a TaskManager is built with
MaxCapacity == 2
\* submit_task calls in flight at once
NumCallers == 2
\* get_next_proxy calls made in one behaviour
MaxCalls == 3
\* threads calling get_next_proxy concurrently
NumProxyCallers == 2
\* interval ticks of a monitor in one behaviour
MaxTicks == 6
\* largest max_retries a monitor is configured with
MaxRetries == 1
\* largest max_retries of a RetryConfig
MaxHttpRetries == 2
\* largest *_retries of a CheckoutConfig
MaxStepRetries == 2
\* longest plaintext given to seal
MaxPlainLen == 2
\* persist_session and delete_session calls made in one behaviour
MaxSessionOps == 2
\* threads calling persist_session or delete_session concurrently
NumSessionWriters == 2

\* sequential get_next_proxy calls made in one behaviour
MaxSeqCalls == 6

\* largest reading of the clock in one behaviour
MaxUtc == 2

\* largest reading of the clock of the database, and the calls made on it
MaxDbClock == 2
MaxDbOps == 3

TaskIds == 0 .. (MaxTasks - 1)
ProxyCallers == 1 .. NumProxyCallers
SessionWriters == 1 .. NumSessionWriters

\* the pools a ProxyManager is built with, and the proxies set_proxy_health
\* is called with (members or not)
Pools == {<<>>, <<"A:1">>, <<"A:1", "B:2">>, <<"A:1", "B:2", "C:3">>}
ProxyIds == {"A:1", "B:2", "C:3"}

----------------------------------------------------------------------------
(* TaskResult and its builders (tasks/manager.rs:31-87).  An Option field  *)
(* is modelled by whether it is set.                                       *)

pending(task_id) ==
    [task_id |-> task_id, status |-> "Pending", started_at |-> FALSE,
     completed_at |-> FALSE, error_message |-> FALSE, metadata |-> FALSE]

running(r) == [r EXCEPT !.status = "Running", !.started_at = TRUE]

completed_mut_no_stamp(r) == [r EXCEPT !.status = "Completed"]
completed(r) == [r EXCEPT !.status = "Completed", !.completed_at = TRUE]

failed(r) ==
    [r EXCEPT !.status = "Failed", !.completed_at = TRUE, !.error_message = TRUE]

cancelled(r) == [r EXCEPT !.status = "Cancelled", !.completed_at = TRUE]

with_metadata(r) == [r EXCEPT !.metadata = TRUE]

\* DashMap::insert: adds the key or replaces its value
insert(m, k, v) == [x \in (DOMAIN m) \cup {k} |-> IF x = k THEN v ELSE m[x]]

\* TaskManager::get_task_result, reduced to the status ("None" for no entry)
get_task_result(task_id) ==
    IF task_id \in DOMAIN task_store THEN task_store[task_id].status ELSE "None"

\* TaskManager::get_tasks_by_status
get_tasks_by_status(status) ==
    {id \in DOMAIN task_store : task_store[id].status = status}

\* TaskManager::running_tasks_count
running_tasks_count == Cardinality(get_tasks_by_status("Running"))

\* AtomicU64::fetch_add(1): the value stored
fetch_add_mut_no_increment(c) == c
fetch_add(c) == c + 1

\* dropping a SemaphorePermit: the permits available afterwards
add_permits_mut_leak(p) == p
add_permits(p) == p + 1

\* Semaphore::try_acquire / acquire: is a permit available
permit_available_mut_always(p) == TRUE
permit_available(p) == p > 0

----------------------------------------------------------------------------
(* TaskManager::new (tasks/manager.rs:119-138) *)

TMInit ==
    /\ max_concurrent \in 1 .. MaxCapacity
    /\ permits = max_concurrent
    /\ task_store = <<>>
    /\ task_id_counter = 0
    /\ shutdownFlag = FALSE
    /\ task_handles = {}
    /\ subscribed = {}
    /\ rxmsg = {}
    /\ aborted = {}
    /\ wpc = [id \in TaskIds |-> "none"]
    /\ holds = {}
    /\ outcome = [id \in TaskIds |-> "none"]
    /\ checked = 0
    /\ cpc = [id \in TaskIds |-> "none"]
    /\ refused = 0
    /\ submits = 0
    /\ issued = <<>>
    /\ spc = "idle"
    /\ remaining_tasks = 0
    /\ startedInShutdown = {}

workerVars == <<wpc, holds, outcome, permits>>
callerVars == <<checked, cpc, refused, submits, issued>>
shutVars == <<spc, remaining_tasks>>

----------------------------------------------------------------------------
(* TaskManager::submit_task, the caller's part (tasks/manager.rs:141-244). *)
(* Up to NumCallers calls are in flight at once.  A call that passed the   *)
(* flag check and has not yet fetched its id is counted in `checked`; from *)
(* the fetch_add on, a call is identified by the id it was given.          *)

InFlight == checked + Cardinality({id \in TaskIds : cpc[id] \in {"spawn", "handle"}})

\* line 145-147: a caller enters submit_task and loads the shutdown flag;
\* the call returns Err when it is set
SubmitCheck ==
    /\ InFlight < NumCallers
    /\ submits < MaxTasks
    /\ submits' = submits + 1
    /\ \/ /\ shutdownFlag
          /\ refused' = refused + 1
          /\ UNCHANGED checked
       \/ /\ ~shutdownFlag
          /\ checked' = checked + 1
          /\ UNCHANGED refused
    /\ UNCHANGED <<max_concurrent, permits, task_store, task_id_counter,
                   shutdownFlag, task_handles, subscribed, rxmsg, aborted, wpc,
                   holds, outcome, cpc, issued, shutVars, startedInShutdown>>
    /\ UNCHANGED notTM

\* line 150-154: task_id = task_id_counter.fetch_add(1);
\* task_store.insert(task_id, TaskResult::pending(task_id))
SubmitAlloc ==
    /\ checked > 0
    /\ checked' = checked - 1
    /\ task_id_counter' = fetch_add(task_id_counter)
    /\ issued' = Append(issued, task_id_counter)
    /\ task_store' = insert(task_store, task_id_counter, pending(task_id_counter))
    /\ cpc' = [cpc EXCEPT ![task_id_counter] = "spawn"]
    /\ UNCHANGED <<max_concurrent, permits, shutdownFlag, task_handles,
                   subscribed, rxmsg, aborted, wpc, holds, outcome, submits,
                   refused, shutVars, startedInShutdown>>
    /\ UNCHANGED notTM

\* line 162-166: shutdown_rx = shutdown_tx.subscribe(), a receiver that sees
\* only the messages sent after it was created, and tokio::spawn of the
\* worker that owns it (nothing can tell the two steps apart before the
\* worker's first step)
SubmitSpawn(id) ==
    /\ cpc[id] = "spawn"
    /\ subscribed' = subscribed \cup {id}
    /\ wpc' = [wpc EXCEPT ![id] = "spawned"]
    /\ cpc' = [cpc EXCEPT ![id] = "handle"]
    /\ UNCHANGED <<max_concurrent, permits, task_store, task_id_counter,
                   shutdownFlag, task_handles, rxmsg, aborted,
                   holds, outcome, checked, submits, issued, refused, shutVars,
                   startedInShutdown>>
    /\ UNCHANGED notTM

\* line 241-243: task_handles.insert(task_id, handle); Ok(task_id)
SubmitHandle(id) ==
    /\ cpc[id] = "handle"
    /\ task_handles' = task_handles \cup {id}
    /\ cpc' = [cpc EXCEPT ![id] = "returned"]
    /\ UNCHANGED <<max_concurrent, permits, task_store, task_id_counter,
                   shutdownFlag, subscribed, rxmsg, aborted, wpc, holds,
                   outcome, checked, submits, issued, refused, shutVars,
                   startedInShutdown>>
    /\ UNCHANGED notTM

----------------------------------------------------------------------------
(* The spawned worker (tasks/manager.rs:166-238).  A worker is suspended   *)
(* (its future returned Poll::Pending) at "spawned", "waiting" and         *)
(* "exec_susp"; JoinHandle::abort takes effect only there.                 *)

\* where a worker continues after it stored Cancelled at the flag re-check:
\* line 200 returns
return_after_cancel_mut_fallthrough == "store_running"
return_after_cancel == "exit"

Suspended(id) == wpc[id] \in {"spawned", "waiting", "exec_susp"}

\* line 168-170: semaphore.try_acquire()
WTryAcquire(id) ==
    /\ wpc[id] = "spawned"
    /\ id \notin aborted
    /\ \/ /\ permit_available(permits)
          /\ permits' = permits - 1
          /\ holds' = holds \cup {id}
          /\ wpc' = [wpc EXCEPT ![id] = "check"]
       \/ /\ ~permit_available(permits)
          /\ wpc' = [wpc EXCEPT ![id] = "select_acquire"]
          /\ UNCHANGED <<permits, holds>>
    /\ UNCHANGED <<max_concurrent, task_store, task_id_counter, shutdownFlag,
                   task_handles, subscribed, rxmsg, aborted, outcome, callerVars, shutVars, startedInShutdown>>
    /\ UNCHANGED notTM

\* line 172-191: select! { semaphore.acquire(), shutdown_rx.recv() }; the
\* branch taken is any of the ready ones; with none ready the worker suspends.
\* (The Err arm of acquire() needs a closed semaphore; nothing closes it.)
WSelectAcquire(id) ==
    /\ wpc[id] \in {"select_acquire", "waiting"}
    /\ wpc[id] = "waiting" => id \notin aborted
    /\ \/ /\ permit_available(permits)
          /\ permits' = permits - 1
          /\ holds' = holds \cup {id}
          /\ wpc' = [wpc EXCEPT ![id] = "check"]
          /\ UNCHANGED task_store
       \/ /\ id \in rxmsg
          /\ task_store' = insert(task_store, id, cancelled(pending(id)))
          /\ wpc' = [wpc EXCEPT ![id] = "exit"]
          /\ UNCHANGED <<permits, holds>>
       \/ /\ wpc[id] = "select_acquire"
          /\ ~permit_available(permits)
          /\ id \notin rxmsg
          /\ wpc' = [wpc EXCEPT ![id] = "waiting"]
          /\ UNCHANGED <<permits, holds, task_store>>
    /\ UNCHANGED <<max_concurrent, task_id_counter, shutdownFlag, task_handles,
                   subscribed, rxmsg, aborted, outcome, callerVars,
                   shutVars, startedInShutdown>>
    /\ UNCHANGED notTM

\* line 196-201: the flag is re-checked after the permit was acquired
WCheckShutdown(id) ==
    /\ wpc[id] = "check"
    /\ \/ /\ shutdownFlag
          /\ task_store' = insert(task_store, id, cancelled(pending(id)))
          /\ wpc' = [wpc EXCEPT ![id] = return_after_cancel]
       \/ /\ ~shutdownFlag
          /\ wpc' = [wpc EXCEPT ![id] = "store_running"]
          /\ UNCHANGED task_store
    /\ UNCHANGED <<max_concurrent, permits, task_id_counter, shutdownFlag,
                   task_handles, subscribed, rxmsg, aborted, holds, outcome,
                   callerVars, shutVars, startedInShutdown>>
    /\ UNCHANGED notTM

\* line 204-205: task_store.insert(task_id, pending(task_id).running())
WStoreRunning(id) ==
    /\ wpc[id] = "store_running"
    /\ task_store' = insert(task_store, id, running(pending(id)))
    /\ wpc' = [wpc EXCEPT ![id] = "select_exec"]
    /\ startedInShutdown' =
          IF shutdownFlag THEN startedInShutdown \cup {id} ELSE startedInShutdown
    /\ UNCHANGED <<max_concurrent, permits, task_id_counter, shutdownFlag,
                   task_handles, subscribed, rxmsg, aborted, holds, outcome,
                   callerVars, shutVars>>
    /\ UNCHANGED notTM

\* line 209-217: select! { task.execute(), shutdown_rx.recv() }: execute()
\* returns Ok or Err, or the shutdown message wins, or nothing is ready and
\* the worker suspends inside execute()
WSelectExec(id) ==
    /\ wpc[id] \in {"select_exec", "exec_susp"}
    /\ wpc[id] = "exec_susp" => id \notin aborted
    /\ \/ /\ \E res \in {"ok", "err"} : outcome' = [outcome EXCEPT ![id] = res]
          /\ wpc' = [wpc EXCEPT ![id] = "store_final"]
          /\ UNCHANGED task_store
       \/ /\ id \in rxmsg
          /\ task_store' = insert(task_store, id, cancelled(running(pending(id))))
          /\ wpc' = [wpc EXCEPT ![id] = "exit"]
          /\ UNCHANGED outcome
       \/ /\ wpc[id] = "select_exec"
          /\ id \notin rxmsg
          /\ wpc' = [wpc EXCEPT ![id] = "exec_susp"]
          /\ UNCHANGED <<outcome, task_store>>
    /\ UNCHANGED <<max_concurrent, permits, task_id_counter, shutdownFlag,
                   task_handles, subscribed, rxmsg, aborted, holds, callerVars,
                   shutVars, startedInShutdown>>
    /\ UNCHANGED notTM

\* line 220-231: the final result is stored
WStoreFinal(id) ==
    /\ wpc[id] = "store_final"
    /\ task_store' = insert(task_store, id,
          IF outcome[id] = "ok"
          THEN with_metadata(completed(running(pending(id))))
          ELSE failed(running(pending(id))))
    /\ wpc' = [wpc EXCEPT ![id] = "drop_permit"]
    /\ UNCHANGED <<max_concurrent, permits, task_id_counter, shutdownFlag,
                   task_handles, subscribed, rxmsg, aborted, holds, outcome,
                   callerVars, shutVars, startedInShutdown>>
    /\ UNCHANGED notTM

\* line 234: drop(permit)
WDropPermit(id) ==
    /\ wpc[id] = "drop_permit"
    /\ permits' = add_permits(permits)
    /\ holds' = holds \ {id}
    /\ wpc' = [wpc EXCEPT ![id] = "remove_handle"]
    /\ UNCHANGED <<max_concurrent, task_store, task_id_counter, shutdownFlag,
                   task_handles, subscribed, rxmsg, aborted, outcome, callerVars, shutVars, startedInShutdown>>
    /\ UNCHANGED notTM

\* line 237-238: task_handles.remove(&task_id); the worker's future ends,
\* which drops its shutdown receiver
WRemoveHandle(id) ==
    /\ wpc[id] = "remove_handle"
    /\ task_handles' = task_handles \ {id}
    /\ wpc' = [wpc EXCEPT ![id] = "done"]
    /\ subscribed' = subscribed \ {id}
    /\ rxmsg' = rxmsg \ {id}
    /\ UNCHANGED <<max_concurrent, permits, task_store, task_id_counter,
                   shutdownFlag, aborted, holds, outcome,
                   callerVars, shutVars, startedInShutdown>>
    /\ UNCHANGED notTM

\* the early returns of line 189, 200 and 215: the async block ends, which
\* drops the permit if one is held and the shutdown receiver; the handle
\* entry is not removed
WExit(id) ==
    /\ wpc[id] = "exit"
    /\ permits' = IF id \in holds THEN add_permits(permits) ELSE permits
    /\ holds' = holds \ {id}
    /\ wpc' = [wpc EXCEPT ![id] = "done"]
    /\ subscribed' = subscribed \ {id}
    /\ rxmsg' = rxmsg \ {id}
    /\ UNCHANGED <<max_concurrent, task_store, task_id_counter, shutdownFlag,
                   task_handles, aborted, outcome, callerVars, shutVars, startedInShutdown>>
    /\ UNCHANGED notTM

\* the effect of JoinHandle::abort (line 318) on a suspended worker: its
\* future is dropped, which releases a held permit, drops the shutdown
\* receiver and writes nothing
WAborted(id) ==
    /\ id \in aborted
    /\ Suspended(id)
    /\ permits' = IF id \in holds THEN add_permits(permits) ELSE permits
    /\ holds' = holds \ {id}
    /\ wpc' = [wpc EXCEPT ![id] = "done"]
    /\ subscribed' = subscribed \ {id}
    /\ rxmsg' = rxmsg \ {id}
    /\ aborted' = aborted \ {id}
    /\ UNCHANGED <<max_concurrent, task_store, task_id_counter, shutdownFlag,
                   task_handles, outcome, callerVars, shutVars, startedInShutdown>>
    /\ UNCHANGED notTM

----------------------------------------------------------------------------
(* TaskManager::shutdown (tasks/manager.rs:284-323) *)

\* line 286: shutdown.store(true)
ShutdownStore ==
    /\ spc = "idle"
    /\ shutdownFlag' = TRUE
    /\ spc' = "send"
    /\ UNCHANGED <<max_concurrent, task_store, task_id_counter, task_handles,
                   subscribed, rxmsg, aborted, workerVars, callerVars,
                   remaining_tasks, startedInShutdown>>
    /\ UNCHANGED notTM

\* line 289: shutdown_tx.send(()) reaches every receiver that exists now
ShutdownSend ==
    /\ spc = "send"
    /\ rxmsg' = subscribed
    /\ spc' = "collect"
    /\ UNCHANGED <<max_concurrent, task_store, task_id_counter, shutdownFlag,
                   task_handles, subscribed, aborted, workerVars, callerVars,
                   remaining_tasks, startedInShutdown>>
    /\ UNCHANGED notTM

\* line 292-305: remaining_tasks = number of handles in the map
ShutdownCollect ==
    /\ spc = "collect"
    /\ remaining_tasks' = Cardinality(task_handles)
    /\ spc' = "wait"
    /\ UNCHANGED <<max_concurrent, task_store, task_id_counter, shutdownFlag,
                   task_handles, subscribed, rxmsg, aborted, workerVars,
                   callerVars, startedInShutdown>>
    /\ UNCHANGED notTM

\* line 309-312: one round of the wait loop
ShutdownPoll ==
    /\ spc = "wait"
    /\ remaining_tasks > 0
    /\ remaining_tasks' = Cardinality(task_handles)
    /\ UNCHANGED <<max_concurrent, task_store, task_id_counter, shutdownFlag,
                   task_handles, subscribed, rxmsg, aborted, workerVars,
                   callerVars, spc, startedInShutdown>>
    /\ UNCHANGED notTM

\* line 309, 314-322: the loop is left, because remaining_tasks is 0 or
\* because shutdown_timeout (30 s) has elapsed; in the second case abort()
\* is called on every handle in the map (it does nothing to a worker that
\* has finished)
ShutdownFinish ==
    /\ spc = "wait"
    /\ \/ /\ remaining_tasks = 0
          /\ UNCHANGED aborted
       \/ /\ remaining_tasks > 0
          /\ aborted' = aborted \cup {id \in task_handles : wpc[id] # "done"}
    /\ remaining_tasks' = 0
    /\ spc' = "returned"
    /\ UNCHANGED <<max_concurrent, task_store, task_id_counter, shutdownFlag,
                   task_handles, subscribed, rxmsg, workerVars, callerVars,
                   startedInShutdown>>
    /\ UNCHANGED notTM

----------------------------------------------------------------------------
Submit ==
    \/ SubmitCheck
    \/ SubmitAlloc
    \/ \E id \in TaskIds :
        \/ SubmitSpawn(id)
        \/ SubmitHandle(id)

Worker ==
    \E id \in TaskIds :
        \/ WTryAcquire(id)
        \/ WSelectAcquire(id)
        \/ WCheckShutdown(id)
        \/ WStoreRunning(id)
        \/ WSelectExec(id)
        \/ WStoreFinal(id)
        \/ WDropPermit(id)
        \/ WRemoveHandle(id)
        \/ WExit(id)
        \/ WAborted(id)

Shutdown ==
    \/ ShutdownStore
    \/ ShutdownSend
    \/ ShutdownCollect
    \/ ShutdownPoll
    \/ ShutdownFinish


----------------------------------------------------------------------------
(* ProxyManager (proxy/manager.rs) *)

\* the ids in the pool
Members == {proxies[i] : i \in 1 .. Len(proxies)}

\* ProxyManager.total_proxies
total_proxies == Len(proxies)

\* status.get(&proxy_id).copied().unwrap_or(false) (line 98, 133, 143)
is_healthy_mut_ignore(status, proxy_id) == TRUE
is_healthy(status, proxy_id) ==
    proxy_id \in DOMAIN status /\ status[proxy_id]

\* line 90-91: the index examined, from the value fetch_add(1) returned
scan_index_mut_new_value(cur, n) == (cur + 1) % n
scan_index(cur, n) == cur % n

\* ProxyManager::get_healthy_proxies (line 137-147)
get_healthy_proxies ==
    SelectSeq(proxies, LAMBDA proxy_id : is_healthy(health_status, proxy_id))

\* ProxyManager::healthy_proxies_count (line 160-163)
healthy_proxies_count ==
    Cardinality({k \in DOMAIN health_status : health_status[k]})

\* ProxyManager::new (line 58-77): every member starts healthy
ProxyInit ==
    /\ proxies \in Pools
    /\ current_index = 0
    /\ health_status = [k \in Members |-> TRUE]
    /\ ppc = [c \in ProxyCallers |-> "idle"]
    /\ attempts = [c \in ProxyCallers |-> 0]
    /\ current_idx = [c \in ProxyCallers |-> 0]
    /\ last_returned = "-"
    /\ ncalls = 0
    /\ nreturned = 0
    /\ stayedHealthy = [c \in ProxyCallers |-> {}]
    /\ pristine = TRUE

\* get_next_proxy, line 81-87: the call starts; None for an empty pool
NextProxyCall(c) ==
    /\ ppc[c] = "idle"
    /\ ncalls < MaxCalls
    /\ ncalls' = ncalls + 1
    /\ pristine' = (pristine /\ \A d \in ProxyCallers : ppc[d] = "idle")
    /\ \/ /\ total_proxies = 0
          /\ last_returned' = "None"
          /\ nreturned' = nreturned + 1
          /\ UNCHANGED <<ppc, stayedHealthy>>
       \/ /\ total_proxies # 0
          /\ ppc' = [ppc EXCEPT ![c] = "scan"]
          /\ stayedHealthy' = [stayedHealthy EXCEPT ![c] =
                                  {k \in Members : is_healthy(health_status, k)}]
          /\ UNCHANGED <<last_returned, nreturned>>
    /\ UNCHANGED <<proxies, current_index, health_status, attempts, current_idx>>
    /\ UNCHANGED notProxy

\* line 89-93: the loop test, then current_index.fetch_add(1) % total_proxies;
\* line 107-108: None after total_proxies attempts
NextProxyFetch(c) ==
    /\ ppc[c] = "scan"
    /\ \/ /\ attempts[c] < total_proxies
          /\ current_idx' = [current_idx EXCEPT ![c] = scan_index(current_index, total_proxies)]
          /\ current_index' = current_index + 1
          /\ ppc' = [ppc EXCEPT ![c] = "read"]
          /\ UNCHANGED <<last_returned, nreturned, attempts, stayedHealthy>>
       \/ /\ attempts[c] >= total_proxies
          /\ last_returned' = "None"
          /\ nreturned' = nreturned + 1
          /\ ppc' = [ppc EXCEPT ![c] = "idle"]
          /\ attempts' = [attempts EXCEPT ![c] = 0]
          /\ stayedHealthy' = [stayedHealthy EXCEPT ![c] = {}]
          /\ UNCHANGED <<current_idx, current_index>>
    /\ UNCHANGED <<proxies, health_status, ncalls, pristine>>
    /\ UNCHANGED notProxy

\* line 96-104: under the read lock, the proxy is returned if its bit is
\* true; otherwise attempts += 1
NextProxyRead(c) ==
    /\ ppc[c] = "read"
    /\ \/ /\ is_healthy(health_status, proxies[current_idx[c] + 1])
          /\ last_returned' = proxies[current_idx[c] + 1]
          /\ nreturned' = nreturned + 1
          /\ ppc' = [ppc EXCEPT ![c] = "idle"]
          /\ attempts' = [attempts EXCEPT ![c] = 0]
          /\ stayedHealthy' = [stayedHealthy EXCEPT ![c] = {}]
       \/ /\ ~is_healthy(health_status, proxies[current_idx[c] + 1])
          /\ attempts' = [attempts EXCEPT ![c] = attempts[c] + 1]
          /\ ppc' = [ppc EXCEPT ![c] = "scan"]
          /\ UNCHANGED <<last_returned, nreturned, stayedHealthy>>
    /\ current_idx' = [current_idx EXCEPT ![c] = 0]
    /\ UNCHANGED <<proxies, current_index, health_status, ncalls, pristine>>
    /\ UNCHANGED notProxy

\* ProxyManager::set_proxy_health (line 117-127), for any proxy
SetProxyHealth(proxy_id, is_healthy_arg) ==
    /\ health_status' = insert(health_status, proxy_id, is_healthy_arg)
    /\ health_status' # health_status
    /\ stayedHealthy' = [c \in ProxyCallers |->
          IF is_healthy_arg THEN stayedHealthy[c] ELSE stayedHealthy[c] \ {proxy_id}]
    /\ pristine' = (pristine /\ (is_healthy_arg \/ proxy_id \notin Members))
    /\ UNCHANGED <<proxies, current_index, ppc, attempts, current_idx,
                   last_returned, ncalls, nreturned>>
    /\ UNCHANGED notProxy

\* ProxyManager::reset_all_health (line 166-173)
ResetAllHealth ==
    /\ health_status' = [k \in DOMAIN health_status \cup Members |->
                            IF k \in Members THEN TRUE ELSE health_status[k]]
    /\ health_status' # health_status
    /\ UNCHANGED <<proxies, current_index, ppc, attempts, current_idx,
                   last_returned, ncalls, nreturned, stayedHealthy, pristine>>
    /\ UNCHANGED notProxy

NextProxy ==
    \E c \in ProxyCallers :
        \/ NextProxyCall(c)
        \/ NextProxyFetch(c)
        \/ NextProxyRead(c)

Health ==
    \/ \E proxy_id \in ProxyIds, b \in BOOLEAN : SetProxyHealth(proxy_id, b)
    \/ ResetAllHealth

----------------------------------------------------------------------------
(* MonitorTask (core/monitor.rs) *)

\* the responses of the product endpoint: the status, and whether the
\* lowercased body contains one of the out-of-stock phrases (line 247-256)
Responses ==
    {[status |-> 200, out_of_stock |-> FALSE],
     [status |-> 200, out_of_stock |-> TRUE],
     [status |-> 404, out_of_stock |-> FALSE]}

\* MonitorTask::parse_availability_from_response (line 236-262)
parse_availability_from_response(response) ==
    IF response.status = 200 THEN ~response.out_of_stock ELSE FALSE

\* Option<bool>
None == <<>>
Some(b) == <<b>>

\* line 150: has the availability changed
availability_changed_mut_always(last, current) == TRUE
availability_changed(last, current) == last # Some(current)

\* check_with_retry line 191 and 205: for attempt in 0..=max_retries, another
\* attempt follows a failed one while attempt < max_retries
retries_left_mut_one_less(a, n) == a + 1 < n
retries_left(a, n) == a < n

\* MonitorTask::new (line 56-91)
MonitorInit ==
    /\ is_running = FALSE
    /\ max_retries \in 0 .. MaxRetries
    /\ mpc = "new"
    /\ last_availability = None
    /\ attempt = 0
    /\ nticks = 0
    /\ obs = <<>>
    /\ emitted = <<>>
    /\ event_sender = "new"
    /\ channel = <<>>
    /\ stop_returned = FALSE

\* run, line 125-132: is_running = true; last_availability = None
MRunStart ==
    /\ mpc = "new"
    /\ is_running' = TRUE
    /\ last_availability' = None
    /\ mpc' = "loop"
    /\ UNCHANGED <<max_retries, attempt, nticks, obs, emitted, event_sender, channel, stop_returned>>
    /\ UNCHANGED notMon

\* line 136-142: the loop ends when is_running is false
MLoopCheck ==
    /\ mpc = "loop"
    /\ mpc' = IF is_running THEN "tick" ELSE "stopped"
    /\ UNCHANGED <<is_running, max_retries, last_availability, attempt, nticks,
                   obs, emitted, event_sender, channel, stop_returned>>
    /\ UNCHANGED notMon

\* line 144: interval_timer.tick().await
MTick ==
    /\ mpc = "tick"
    /\ nticks < MaxTicks
    /\ nticks' = nticks + 1
    /\ attempt' = 0
    /\ mpc' = "check"
    /\ UNCHANGED <<is_running, max_retries, last_availability, obs, emitted,
                   event_sender, channel, stop_returned>>
    /\ UNCHANGED notMon

\* UnboundedSender::send (line 161): the event is queued when the receiver of
\* the sender's channel exists; the receiver of the channel made by
\* MonitorTask::new was dropped there (line 79), and send returns Err
send(sender, queue, event) ==
    IF sender = "add_monitor" THEN Append(queue, event) ELSE queue

\* line 147-166 with check_with_retry line 191-197: a single_check returned
\* Ok(current_availability); an event is sent if the availability changed
MCheckOk(response) ==
    /\ mpc = "check"
    /\ LET current_availability == parse_availability_from_response(response)
           event == [index |-> Len(obs) + 1, is_available |-> current_availability]
       IN /\ obs' = Append(obs, current_availability)
          /\ IF availability_changed(last_availability, current_availability)
             THEN /\ emitted' = Append(emitted, event)
                  /\ channel' = send(event_sender, channel, event)
                  /\ last_availability' = Some(current_availability)
             ELSE UNCHANGED <<emitted, channel, last_availability>>
    /\ attempt' = 0
    /\ mpc' = "loop"
    /\ UNCHANGED <<is_running, max_retries, nticks, event_sender, stop_returned>>
    /\ UNCHANGED notMon

\* check_with_retry line 198-212 and run line 167-169: a single_check
\* failed; it is retried after a sleep, and after max_retries retries the
\* tick ends with a warning
MCheckErr ==
    /\ mpc = "check"
    /\ \/ /\ retries_left(attempt, max_retries)
          /\ attempt' = attempt + 1
          /\ UNCHANGED mpc
       \/ /\ ~retries_left(attempt, max_retries)
          /\ attempt' = 0
          /\ mpc' = "loop"
    /\ UNCHANGED <<is_running, max_retries, last_availability, nticks, obs, emitted,
                   event_sender, channel, stop_returned>>
    /\ UNCHANGED notMon

\* MonitorTask::stop (line 265-269), called once, before or after run()
\* was started
MStop ==
    /\ ~stop_returned
    /\ is_running' = FALSE
    /\ stop_returned' = TRUE
    /\ UNCHANGED <<max_retries, mpc, last_availability, attempt, nticks, obs, emitted,
                   event_sender, channel>>
    /\ UNCHANGED notMon

Monitor ==
    \/ MRunStart
    \/ MLoopCheck
    \/ MTick
    \/ \E response \in Responses : MCheckOk(response)
    \/ MCheckErr
    \/ MStop

----------------------------------------------------------------------------
(* ApiClient::request and execute_with_retry (api/client.rs:99-189) *)

\* the retry configurations a client is given (line 54-59, 94-97); the
\* multiplier is an f64, kept here as a number of halves
RetryConfigs ==
    {[max_retries |-> r, base_delay_ms |-> b, max_delay_ms |-> m,
      backoff_multiplier_halves |-> k] :
        r \in 0 .. MaxHttpRetries, b \in {1, 3}, m \in {2, 5}, k \in {2, 3, 4}}

\* what request() can fail with before the first attempt (line 107-123)
EarlyErrors == {"Invalid URL", "Failed to create proxy"}

\* the ways one attempt fails: request.send() (line 171) or
\* response.bytes() (line 165)
AttemptErrors == {"transport", "body_read"}

\* the statuses of the responses of the server
HttpStatuses == {200, 404, 500}

\* line 154-164: a response whose body was read is returned whatever its status
returns_response_mut_retry_5xx(status) == status < 500
returns_response(status) == TRUE

\* line 148 and 177: another attempt follows a failed one
another_attempt_mut_one_more(a, cfg) == a <= cfg.max_retries
another_attempt(a, cfg) == a < cfg.max_retries

\* line 180-183: min((delay as f64 * backoff_multiplier) as u64, max_delay_ms)
next_delay(d, cfg) ==
    LET scaled == (d * cfg.backoff_multiplier_halves) \div 2
    IN IF scaled < cfg.max_delay_ms THEN scaled ELSE cfg.max_delay_ms

\* ApiClient::new().with_retry_config(config) (line 79-97)
HttpInit ==
    /\ retry_config \in RetryConfigs
    /\ hpc = "idle"
    /\ http_attempt = 0
    /\ http_delay = 0
    /\ http_last_error = None
    /\ http_result = None
    /\ http_trace = <<>>
    /\ http_slept = <<>>

\* request (line 99-139) up to the first attempt: the URL is parsed, the
\* proxy client is built, and execute_with_retry starts (line 145-146)
HRequest(early) ==
    /\ hpc = "idle"
    /\ IF early \in EarlyErrors
       THEN /\ http_result' = Some([ok |-> FALSE, error |-> early])
            /\ hpc' = "returned"
            /\ UNCHANGED <<http_last_error, http_delay, http_attempt>>
       ELSE /\ http_last_error' = None
            /\ http_delay' = retry_config.base_delay_ms
            /\ http_attempt' = 0
            /\ hpc' = "send"
            /\ UNCHANGED http_result
    /\ UNCHANGED <<retry_config, http_trace, http_slept>>
    /\ UNCHANGED notHttp

\* line 153-164: request.send() and response.bytes() succeeded
HSendOk(status) ==
    /\ hpc = "send"
    /\ http_trace' = Append(http_trace, [ok |-> TRUE, status |-> status])
    /\ IF returns_response(status)
       THEN /\ http_result' = Some([ok |-> TRUE, status |-> status])
            /\ hpc' = "returned"
            /\ UNCHANGED http_last_error
       ELSE /\ http_last_error' = Some(<<"status", http_attempt>>)
            /\ hpc' = "failed"
            /\ UNCHANGED http_result
    /\ UNCHANGED <<retry_config, http_attempt, http_delay, http_slept>>
    /\ UNCHANGED notHttp

\* line 165-174: the attempt failed; its error is remembered
HSendErr(kind) ==
    /\ hpc = "send"
    /\ http_trace' = Append(http_trace, [ok |-> FALSE, error |-> <<kind, http_attempt>>])
    /\ http_last_error' = Some(<<kind, http_attempt>>)
    /\ hpc' = "failed"
    /\ UNCHANGED <<retry_config, http_attempt, http_delay, http_result, http_slept>>
    /\ UNCHANGED notHttp

\* line 177-184: sleep(delay), then the next delay and the next attempt
HSleep ==
    /\ hpc = "failed"
    /\ another_attempt(http_attempt, retry_config)
    /\ http_slept' = Append(http_slept, http_delay)
    /\ http_delay' = next_delay(http_delay, retry_config)
    /\ http_attempt' = http_attempt + 1
    /\ hpc' = "send"
    /\ UNCHANGED <<retry_config, http_last_error, http_result, http_trace>>
    /\ UNCHANGED notHttp

\* line 187-188: the loop is over; Err(last_error or "Unknown error")
HExhausted ==
    /\ hpc = "failed"
    /\ ~another_attempt(http_attempt, retry_config)
    /\ http_result' = Some([ok |-> FALSE,
                            error |-> IF http_last_error = None
                                      THEN "Unknown error"
                                      ELSE http_last_error[1]])
    /\ hpc' = "returned"
    /\ UNCHANGED <<retry_config, http_attempt, http_delay, http_last_error,
                   http_trace, http_slept>>
    /\ UNCHANGED notHttp

Http ==
    \/ \E early \in EarlyErrors \cup {"none"} : HRequest(early)
    \/ \E status \in HttpStatuses : HSendOk(status)
    \/ \E kind \in AttemptErrors : HSendErr(kind)
    \/ HSleep
    \/ HExhausted

----------------------------------------------------------------------------
(* CheckoutEngine::instant_checkout (core/checkout.rs:223-716) *)

\* the steps of a checkout, in the order of instant_checkout (line 244-317)
StepOrder ==
    <<"add_to_cart", "get_checkout_url", "fill_shipping_info",
      "select_payment_method", "detect_captcha", "solve_recaptcha", "submit_order">>

\* the steps driven by a *_with_retry loop (line 328, 412, 619)
RetrySteps == {"add_to_cart", "get_checkout_url", "submit_order"}

\* the configurations an engine is built with (line 131-140, 210-220);
\* payment_retries is a field that no code reads
CheckoutConfigs ==
    {[add_to_cart_retries |-> a, checkout_url_retries |-> u, payment_retries |-> p,
      submission_retries |-> s, base_delay_ms |-> d.base, max_delay_ms |-> d.max,
      backoff_multiplier_halves |-> 4] :
        a \in 0 .. MaxStepRetries, u \in 0 .. MaxStepRetries, p \in {MaxStepRetries},
        s \in 0 .. MaxStepRetries, d \in {[base |-> 1, max |-> 3]}}

\* the *_retries field that bounds the loop of a step
retries(cfg, step) ==
    CASE step = "add_to_cart" -> cfg.add_to_cart_retries
      [] step = "get_checkout_url" -> cfg.checkout_url_retries
      [] step = "submit_order" -> cfg.submission_retries

\* what the retailer answers to one request: the request failed, or came
\* back with a status and a body that has the expected shape or not
StepResponses ==
    {[sent |-> FALSE, status |-> 0, shape |-> FALSE],
     [sent |-> TRUE, status |-> 500, shape |-> FALSE],
     [sent |-> TRUE, status |-> 201, shape |-> TRUE],
     [sent |-> TRUE, status |-> 200, shape |-> FALSE],
     [sent |-> TRUE, status |-> 200, shape |-> TRUE]}

\* add_to_cart (line 385-408), get_checkout_url (462-476), submit_order
\* (691-715): status 200 and a body of the expected shape
parsed_step_ok(resp) == resp.sent /\ resp.status = 200 /\ resp.shape

\* fill_shipping_info (line 504-514), select_payment_method (542-552):
\* status 200; the body is not read
status_step_ok(resp) == resp.sent /\ resp.status = 200

\* the answers to captcha-check (line 565-612): the request or its parse
\* failed, or a CaptchaDetectionResponse
CaptchaDetections ==
    {[parsed |-> FALSE, has_captcha |-> FALSE, captcha_type |-> None,
      site_key |-> None, page_url |-> None]}
    \cup
    {[parsed |-> TRUE, has_captcha |-> h, captcha_type |-> t, site_key |-> k,
      page_url |-> p] :
        h \in BOOLEAN, t \in {None, Some("recaptcha_v2"), Some("image"), Some("hcaptcha")},
        k \in {None, Some("KEY")}, p \in {None, Some("PAGE")}}

\* the checkout URL the retailer hands out (line 474-476)
CheckoutUrl == "URL"

\* line 349-352, 437-440, 648-651:
\* min((delay as f64 * backoff_multiplier) as u64, max_delay_ms)
checkout_next_delay(d, cfg) ==
    LET scaled == (d * cfg.backoff_multiplier_halves) \div 2
    IN IF scaled < cfg.max_delay_ms THEN scaled ELSE cfg.max_delay_ms

\* CheckoutResult::success / failure (line 108-126)
CheckoutSuccess(order_id) == [success |-> TRUE, order_id |-> Some(order_id), error |-> None]
CheckoutFailure(error) == [success |-> FALSE, order_id |-> None, error |-> Some(error)]

Request(step, arg) == [ev |-> "request", step |-> step, arg |-> arg]
Succeeded(step) == [ev |-> "success", step |-> step, arg |-> None]
Slept(step, ms) == [ev |-> "sleep", step |-> step, arg |-> ms]

\* CheckoutEngine::with_config (line 210-220) and the session handed to
\* instant_checkout
CheckoutInit ==
    /\ checkout_config \in CheckoutConfigs
    /\ session_is_valid \in BOOLEAN
    /\ copc = "idle"
    /\ co_attempt = 0
    /\ co_delay = 0
    /\ captcha_token = None
    /\ solver_args = None
    /\ captcha_detection = None
    /\ co_log = <<>>
    /\ co_result = None

\* line 236: the session's valid-bit lets the checkout start
preflight_ok_mut_skip(is_valid) == TRUE
preflight_ok(is_valid) == is_valid

\* the step instant_checkout goes on with after a step succeeded (line
\* 244-293)
after_step_mut_payment_first(step) ==
    CASE step = "add_to_cart" -> "get_checkout_url"
      [] step = "get_checkout_url" -> "select_payment_method"
      [] step = "select_payment_method" -> "fill_shipping_info"
      [] step = "fill_shipping_info" -> "detect_captcha"
after_step(step) ==
    CASE step = "add_to_cart" -> "get_checkout_url"
      [] step = "get_checkout_url" -> "fill_shipping_info"
      [] step = "fill_shipping_info" -> "select_payment_method"
      [] step = "select_payment_method" -> "detect_captcha"

\* line 229-242: the preflight
CoPreflight ==
    /\ copc = "idle"
    /\ IF preflight_ok(session_is_valid)
       THEN /\ copc' = "add_to_cart"
            /\ co_delay' = checkout_config.base_delay_ms
            /\ UNCHANGED co_result
       ELSE /\ copc' = "returned"
            /\ co_result' = Some(CheckoutFailure("Session expired"))
            /\ UNCHANGED co_delay
    /\ UNCHANGED <<captcha_detection, checkout_config, session_is_valid, co_attempt, captcha_token,
                   solver_args, co_log>>
    /\ UNCHANGED notCheckout

\* one pass of the loop of a *_with_retry function (line 331-356, 419-444,
\* 627-655): a request; on success the step returns; on failure the loop
\* sleeps unless this was its last pass
RetryPass(step, arg, resp, next) ==
    /\ copc = step
    /\ co_attempt < retries(checkout_config, step)
    /\ IF parsed_step_ok(resp)
       THEN /\ co_log' = co_log \o <<Request(step, arg), Succeeded(step)>>
            /\ copc' = next
            /\ co_attempt' = 0
            /\ co_delay' = checkout_config.base_delay_ms
       ELSE /\ copc' = step
            /\ co_attempt' = co_attempt + 1
            /\ IF co_attempt < retries(checkout_config, step) - 1
               THEN /\ co_log' = co_log \o <<Request(step, arg), Slept(step, co_delay)>>
                    /\ co_delay' = checkout_next_delay(co_delay, checkout_config)
               ELSE /\ co_log' = Append(co_log, Request(step, arg))
                    /\ UNCHANGED co_delay
    /\ UNCHANGED <<captcha_detection, checkout_config, session_is_valid, captcha_token, solver_args>>

\* line 245, add_to_cart_with_retry (line 328-356) and add_to_cart (365-409)
CoAddToCart(resp) ==
    /\ RetryPass("add_to_cart", None, resp, after_step("add_to_cart"))
    /\ UNCHANGED co_result
    /\ UNCHANGED notCheckout

\* line 257, get_checkout_url_with_retry (412-444), get_checkout_url (453-477)
CoGetCheckoutUrl(resp) ==
    /\ RetryPass("get_checkout_url", None, resp, after_step("get_checkout_url"))
    /\ UNCHANGED co_result
    /\ UNCHANGED notCheckout

\* the loop of a *_with_retry function is over (line 358-361, 446-449,
\* 657-660) and instant_checkout returns the failure (247-253, 259-265, 310-316)
CoExhausted(step) ==
    /\ copc = step
    /\ step \in RetrySteps
    /\ co_attempt >= retries(checkout_config, step)
    /\ co_result' = Some(CheckoutFailure(step))
    /\ copc' = "returned"
    /\ UNCHANGED <<captcha_detection, checkout_config, session_is_valid, co_attempt, co_delay,
                   captcha_token, solver_args, co_log>>
    /\ UNCHANGED notCheckout

\* line 271-277, 283-289: return Ok(CheckoutResult::failure(..)) ends the
\* checkout
after_failure_mut_go_on(step) == "submit_order"
after_failure(step) == "returned"

\* a step that is called once (line 269-278, 281-290)
SinglePass(step, resp, next) ==
    /\ copc = step
    /\ IF status_step_ok(resp)
       THEN /\ co_log' = co_log \o <<Request(step, None), Succeeded(step)>>
            /\ copc' = next
            /\ UNCHANGED co_result
       ELSE /\ co_log' = Append(co_log, Request(step, None))
            /\ copc' = after_failure(step)
            /\ co_result' = Some(CheckoutFailure(step))
    /\ UNCHANGED <<captcha_detection, checkout_config, session_is_valid, co_attempt, co_delay,
                   captcha_token, solver_args>>

\* line 269-278 and fill_shipping_info (480-515)
CoFillShipping(resp) ==
    /\ SinglePass("fill_shipping_info", resp, after_step("fill_shipping_info"))
    /\ UNCHANGED notCheckout

\* line 281-290 and select_payment_method (518-553)
CoSelectPayment(resp) ==
    /\ SinglePass("select_payment_method", resp, after_step("select_payment_method"))
    /\ UNCHANGED notCheckout

\* line 591-593: captcha_detection.page_url.unwrap_or_else(|| checkout_url)
solver_page_url_mut_checkout_url(det) == CheckoutUrl
solver_page_url(det) ==
    IF det.page_url = None THEN CheckoutUrl ELSE det.page_url[1]

\* line 293, detect_and_solve_captcha line 563-612 up to the solver call
CoDetectCaptcha(det) ==
    /\ copc = "detect_captcha"
    /\ IF ~det.parsed
       THEN /\ co_log' = Append(co_log, Request("detect_captcha", None))
            /\ copc' = "returned"
            /\ co_result' = Some(CheckoutFailure("detect_captcha"))
            /\ UNCHANGED <<captcha_token, solver_args>>
       ELSE IF ~det.has_captcha
       THEN /\ co_log' = co_log \o <<Request("detect_captcha", None),
                                     Succeeded("detect_captcha")>>
            /\ copc' = "submit_order"
            /\ captcha_token' = None
            /\ UNCHANGED <<co_result, solver_args>>
       ELSE IF det.captcha_type = Some("recaptcha_v2") /\ det.site_key # None
       THEN /\ co_log' = co_log \o <<Request("detect_captcha", None),
                                     Succeeded("detect_captcha")>>
            /\ copc' = "solve_recaptcha"
            /\ solver_args' = Some(<<det.site_key[1], solver_page_url(det)>>)
            /\ UNCHANGED <<co_result, captcha_token>>
       ELSE /\ co_log' = Append(co_log, Request("detect_captcha", None))
            /\ copc' = "returned"
            /\ co_result' = Some(CheckoutFailure("detect_captcha"))
            /\ UNCHANGED <<captcha_token, solver_args>>
    /\ captcha_detection' = IF det.parsed THEN Some(det) ELSE None
    /\ UNCHANGED <<checkout_config, session_is_valid, co_attempt, co_delay>>
    /\ UNCHANGED notCheckout

\* detect_and_solve_captcha line 598-615: captcha_solver.solve_recaptcha
CoSolveRecaptcha(solved) ==
    /\ copc = "solve_recaptcha"
    /\ IF solved
       THEN /\ co_log' = co_log \o <<Request("solve_recaptcha", solver_args[1]),
                                     Succeeded("solve_recaptcha")>>
            /\ captcha_token' = Some("TOKEN")
            /\ copc' = "submit_order"
            /\ UNCHANGED co_result
       ELSE /\ co_log' = Append(co_log, Request("solve_recaptcha", solver_args[1]))
            /\ copc' = "returned"
            /\ co_result' = Some(CheckoutFailure("solve_recaptcha"))
            /\ UNCHANGED captcha_token
    /\ UNCHANGED <<captcha_detection, checkout_config, session_is_valid, co_attempt, co_delay, solver_args>>
    /\ UNCHANGED notCheckout

\* line 305-324, submit_order_with_retry (619-661) and submit_order (664-716)
CoSubmitOrder(resp) ==
    /\ RetryPass("submit_order", captcha_token, resp, "returned")
    /\ co_result' = IF parsed_step_ok(resp) THEN Some(CheckoutSuccess("ORDER"))
                    ELSE co_result
    /\ UNCHANGED notCheckout

Checkout ==
    \/ CoPreflight
    \/ \E resp \in StepResponses : CoAddToCart(resp)
    \/ \E resp \in StepResponses : CoGetCheckoutUrl(resp)
    \/ \E step \in RetrySteps : CoExhausted(step)
    \/ \E resp \in StepResponses : CoFillShipping(resp)
    \/ \E resp \in StepResponses : CoSelectPayment(resp)
    \/ \E det \in CaptchaDetections : CoDetectCaptcha(det)
    \/ \E solved \in BOOLEAN : CoSolveRecaptcha(solved)
    \/ \E resp \in StepResponses : CoSubmitOrder(resp)

----------------------------------------------------------------------------
(* The crypto envelopes: EncryptionManager (config/encryption.rs:29-124)   *)
(* and SessionManager::encrypt_data / decrypt_data (core/session.rs:       *)
(* 404-444).  Bytes are the numbers 0 .. 255.  Aes256Gcm is the aes_gcm    *)
(* crate; it is modelled as an authenticated cipher that adds a key stream *)
(* to the plaintext and appends a 16-byte tag, every byte of which depends *)
(* on the key, on the nonce and on every byte of the ciphertext.           *)

RECURSIVE Sum(_)
Sum(s) == IF s = <<>> THEN 0 ELSE Head(s) + Sum(Tail(s))

Take(s, n) == SubSeq(s, 1, n)
Drop(s, n) == SubSeq(s, n + 1, Len(s))

Ok(v) == [ok |-> TRUE, value |-> v]
Err(e) == [ok |-> FALSE, error |-> e]

\* Nonce::from_slice takes 12 bytes; the tag of Aes256Gcm has 16
NonceLen == 12
TagLen == 16

\* the key stream byte at place i and the tag, given the mix of key and nonce
KeyStream(mix, i) == (mix + i) % 256

AeadTagOf(base) == [j \in 1 .. TagLen |-> (base + j) % 256]

AeadTag(mix, ct) == AeadTagOf(mix + Sum(ct) + Len(ct))

AeadSeal(mix, plaintext) ==
    LET ct == [i \in 1 .. Len(plaintext) |-> (plaintext[i] + KeyStream(mix, i)) % 256]
    IN ct \o AeadTag(mix, ct)

AeadOpen(mix, ct, tag) ==
    IF tag # AeadTag(mix, ct) THEN Err("aead")
    ELSE Ok([i \in 1 .. Len(ct) |-> (ct[i] + 256 - KeyStream(mix, i)) % 256])

\* cipher.encrypt(nonce, plaintext): ciphertext followed by the tag
aead_encrypt(key, nonce, plaintext) == AeadSeal(Sum(key) + Sum(nonce), plaintext)

\* cipher.decrypt(nonce, ciphertext): the tag is verified, then the
\* plaintext is recovered
aead_decrypt(key, nonce, data) ==
    IF Len(data) < TagLen THEN Err("aead")
    ELSE AeadOpen(Sum(key) + Sum(nonce), Take(data, Len(data) - TagLen),
                  Drop(data, Len(data) - TagLen))

\* general_purpose::STANDARD: the alphabet A-Z a-z 0-9 + / and the padding =
Base64Char(v) ==
    IF v < 26 THEN 65 + v
    ELSE IF v < 52 THEN 97 + (v - 26)
    ELSE IF v < 62 THEN 48 + (v - 52)
    ELSE IF v = 62 THEN 43 ELSE 47

Base64Pad == 61

\* the 6-bit value of a character, -1 for a character outside the alphabet
Base64Value(c) ==
    IF c >= 65 /\ c <= 90 THEN c - 65
    ELSE IF c >= 97 /\ c <= 122 THEN c - 97 + 26
    ELSE IF c >= 48 /\ c <= 57 THEN c - 48 + 52
    ELSE IF c = 43 THEN 62
    ELSE IF c = 47 THEN 63 ELSE 0 - 1

\* general_purpose::STANDARD.encode (config/encryption.rs:77)
RECURSIVE base64_encode(_)
base64_encode(b) ==
    IF Len(b) = 0 THEN <<>>
    ELSE IF Len(b) = 1 THEN
        <<Base64Char(b[1] \div 4), Base64Char((b[1] % 4) * 16), Base64Pad, Base64Pad>>
    ELSE IF Len(b) = 2 THEN
        <<Base64Char(b[1] \div 4), Base64Char((b[1] % 4) * 16 + b[2] \div 16),
          Base64Char((b[2] % 16) * 4), Base64Pad>>
    ELSE
        <<Base64Char(b[1] \div 4), Base64Char((b[1] % 4) * 16 + b[2] \div 16),
          Base64Char((b[2] % 16) * 4 + b[3] \div 64), Base64Char(b[3] % 64)>>
        \o base64_encode(Drop(b, 3))

\* general_purpose::STANDARD.decode (config/encryption.rs:84-86): canonical
\* padding is required and the unused bits of the last character must be 0
RECURSIVE base64_decode(_)
base64_decode(c) ==
    IF Len(c) = 0 THEN Ok(<<>>)
    ELSE IF Len(c) < 4 THEN Err("base64")
    ELSE
        LET v1 == Base64Value(c[1])
            v2 == Base64Value(c[2])
            v3 == Base64Value(c[3])
            v4 == Base64Value(c[4])
            last == Len(c) = 4
        IN IF v1 < 0 \/ v2 < 0 THEN Err("base64")
           ELSE IF v3 >= 0 /\ v4 >= 0 THEN
               LET rest == base64_decode(Drop(c, 4))
               IN IF rest.ok
                  THEN Ok(<<v1 * 4 + v2 \div 16, (v2 % 16) * 16 + v3 \div 4,
                            (v3 % 4) * 64 + v4>> \o rest.value)
                  ELSE rest
           ELSE IF last /\ v3 >= 0 /\ c[4] = Base64Pad /\ v3 % 4 = 0 THEN
               Ok(<<v1 * 4 + v2 \div 16, (v2 % 16) * 16 + v3 \div 4>>)
           ELSE IF last /\ c[3] = Base64Pad /\ c[4] = Base64Pad /\ v2 % 16 = 0 THEN
               Ok(<<v1 * 4 + v2 \div 16>>)
           ELSE Err("base64")

\* EncryptionManager::encrypt (config/encryption.rs:59-79) with the nonce
\* that OsRng produced
encrypt(key, nonce_bytes, plaintext) ==
    base64_encode(nonce_bytes \o aead_encrypt(key, nonce_bytes, plaintext))

\* EncryptionManager::decrypt (config/encryption.rs:82-107); the plaintext
\* of a str is valid UTF-8
decrypt_mut_split_at_tag(key, encrypted_data) ==
    LET encrypted_bytes == base64_decode(encrypted_data)
    IN IF ~encrypted_bytes.ok THEN Err("Base64Error")
       ELSE IF Len(encrypted_bytes.value) < TagLen THEN Err("DecryptionFailed")
       ELSE LET plaintext == aead_decrypt(key, Take(encrypted_bytes.value, TagLen),
                                          Drop(encrypted_bytes.value, TagLen))
            IN IF plaintext.ok THEN plaintext ELSE Err("DecryptionFailed")
decrypt(key, encrypted_data) ==
    LET encrypted_bytes == base64_decode(encrypted_data)
    IN IF ~encrypted_bytes.ok THEN Err("Base64Error")
       ELSE IF Len(encrypted_bytes.value) < NonceLen THEN Err("DecryptionFailed")
       ELSE LET plaintext == aead_decrypt(key, Take(encrypted_bytes.value, NonceLen),
                                          Drop(encrypted_bytes.value, NonceLen))
            IN IF plaintext.ok THEN plaintext ELSE Err("DecryptionFailed")

\* the nonce of SessionManager::encrypt_data: b"uniqnonce123" (core/session.rs:412)
SessionNonce == <<117, 110, 105, 113, 110, 111, 110, 99, 101, 49, 50, 51>>

\* SessionManager::encrypt_data (core/session.rs:404-422)
encrypt_data(key, data) == SessionNonce \o aead_encrypt(key, SessionNonce, data)

\* SessionManager::decrypt_data (core/session.rs:425-444)
decrypt_data(key, encrypted_data) ==
    IF Len(encrypted_data) < NonceLen THEN Err("Encrypted data too short")
    ELSE LET plaintext == aead_decrypt(key, Take(encrypted_data, NonceLen),
                                       Drop(encrypted_data, NonceLen))
         IN IF plaintext.ok THEN plaintext ELSE Err("Failed to decrypt data")

\* 32-byte keys: the test key of config/encryption.rs:177 and
\* SessionManager::default_encryption_key (core/session.rs:124-131)
TestMasterKey ==
    <<1, 35, 69, 103, 137, 171, 205, 239, 1, 35, 69, 103, 137, 171, 205, 239,
      1, 35, 69, 103, 137, 171, 205, 239, 1, 35, 69, 103, 137, 171, 205, 239>>
DefaultSessionKey ==
    <<108, 97, 122, 97, 98, 111, 116, 45, 115, 101, 115, 115, 105, 111, 110, 45,
      101, 110, 99, 114, 121, 112, 116, 105, 111, 110, 45, 107, 101, 121, 45, 45>>

\* the plaintexts sealed: byte strings of at most MaxPlainLen bytes
PlainBytes == {104, 105}
Plaintexts == UNION {[1 .. n -> PlainBytes] : n \in 0 .. MaxPlainLen}

\* the nonces OsRng.fill_bytes produces (config/encryption.rs:61-62)
RandomNonces ==
    {[i \in 1 .. NonceLen |-> 0], [i \in 1 .. NonceLen |-> (37 * i) % 256],
     SessionNonce}

\* EncryptionManager::new (config/encryption.rs:35-56), SessionManager::
\* with_sessions_dir (core/session.rs:93-110)
EnvelopeInit ==
    /\ envelope \in {"config", "session"}
    /\ epc = "idle"
    /\ env_plaintext = <<>>
    /\ sealed = <<>>
    /\ presented = <<>>
    /\ altered_at = 0
    /\ opened = None

\* the key of the envelope
EnvelopeKey == IF envelope = "config" THEN TestMasterKey ELSE DefaultSessionKey

\* seal: EncryptionManager::encrypt or SessionManager::encrypt_data
Seal(p, nonce) ==
    /\ epc = "idle"
    /\ env_plaintext' = p
    /\ sealed' = IF envelope = "config" THEN encrypt(EnvelopeKey, nonce, p)
                 ELSE encrypt_data(EnvelopeKey, p)
    /\ presented' = sealed'
    /\ epc' = "sealed"
    /\ UNCHANGED <<envelope, altered_at, opened>>
    /\ UNCHANGED notEnvelope

\* the length of the longest sealed output: the base64 text of nonce,
\* ciphertext and tag
MaxSealedLen == 4 * ((NonceLen + MaxPlainLen + TagLen + 2) \div 3)

\* what is added to a byte to alter it: every single bit set or cleared,
\* and more
AlterDeltas == {1, 2, 4, 8, 16, 32, 64, 128, 192, 224, 240, 248, 252, 254, 255}

\* one byte of the sealed output is altered before it is opened; the output
\* of EncryptionManager::encrypt is a String, whose bytes stay below 128
Alter(i, d) ==
    /\ epc = "sealed"
    /\ altered_at = 0
    /\ i \in 1 .. Len(sealed)
    /\ envelope = "config" => (sealed[i] + d) % 256 < 128
    /\ presented' = [sealed EXCEPT ![i] = (sealed[i] + d) % 256]
    /\ altered_at' = i
    /\ UNCHANGED <<envelope, epc, env_plaintext, sealed, opened>>
    /\ UNCHANGED notEnvelope

\* open: EncryptionManager::decrypt or SessionManager::decrypt_data
Open ==
    /\ epc = "sealed"
    /\ opened' = Some(IF envelope = "config" THEN decrypt(EnvelopeKey, presented)
                      ELSE decrypt_data(EnvelopeKey, presented))
    /\ epc' = "opened"
    /\ UNCHANGED <<envelope, env_plaintext, sealed, presented, altered_at>>
    /\ UNCHANGED notEnvelope

Envelope ==
    \/ \E p \in Plaintexts, nonce \in RandomNonces : Seal(p, nonce)
    \/ \E i \in 1 .. MaxSealedLen, d \in AlterDeltas : Alter(i, d)
    \/ Open

----------------------------------------------------------------------------
(* SessionManager: persist_session, restore_session, delete_session        *)
(* (core/session.rs:217-264, 360-372).  The JSON text of a session is a    *)
(* sequence of bytes: the punctuation of JSON, one byte per digit, the     *)
(* bytes t, f, n for true, false, null, and one byte (128 and up) per      *)
(* string.                                                                 *)

\* the strings that occur in sessions
StrTab ==
    <<"id", "credentials", "username", "password", "email", "cookies",
      "created_at", "last_used", "is_valid", "metadata",
      "s1", "s2", "user", "pw", "mail", "a", "b", "1", "2", "k">>

StrCode(x) == 127 + (CHOOSE i \in 1 .. Len(StrTab) : StrTab[i] = x)
IsStr(c) == c >= 128 /\ c <= 127 + Len(StrTab)
StrOf(c) == StrTab[c - 127]

\* the sessions handed to persist_session (line 37-45): credentials with or
\* without email, none to two cookies, metadata or none
SessionIds == {"s1", "s2"}
Shapes ==
    {[email |-> None, cookies |-> <<>>, last_used |-> 1, is_valid |-> TRUE,
      metadata |-> <<>>],
     [email |-> Some("mail"), cookies |-> [n \in {"a"} |-> "1"], last_used |-> 2,
      is_valid |-> TRUE, metadata |-> [n \in {"k"} |-> "true"]],
     [email |-> Some("mail"), cookies |-> [n \in {"a", "b"} |-> IF n = "a" THEN "1" ELSE "2"],
      last_used |-> 2, is_valid |-> FALSE, metadata |-> [n \in {"k"} |-> "1"]]}
Sessions ==
    {[id |-> i,
      credentials |-> [username |-> "user", password |-> "pw", email |-> sh.email],
      cookies |-> sh.cookies, created_at |-> 1, last_used |-> sh.last_used,
      is_valid |-> sh.is_valid, metadata |-> sh.metadata] :
        i \in SessionIds, sh \in Shapes}

\* the orders in which a HashMap with these keys is iterated
Orders(keys) ==
    {o \in UNION {[1 .. n -> keys] : n \in {Cardinality(keys)}} :
        \A i, j \in 1 .. Len(o) : i # j => o[i] # o[j]}

\* serde_json of bool, Option<String>, DateTime<Utc>, serde_json::Value
ser_bool(b) == IF b THEN <<116>> ELSE <<102>>
ser_option(o) == IF o = None THEN <<110>> ELSE <<StrCode(o[1])>>
ser_time(t) == <<48 + t>>
ser_value(v) == IF v = "true" THEN <<116>> ELSE <<StrCode(v)>>

Field(name, text) == <<StrCode(name), 58>> \o text

RECURSIVE ser_entries(_, _, _)
ser_entries(m, order, is_value) ==
    IF order = <<>> THEN <<>>
    ELSE Field(Head(order),
               IF is_value THEN ser_value(m[Head(order)]) ELSE <<StrCode(m[Head(order)])>>)
         \o (IF Len(order) > 1 THEN <<44>> ELSE <<>>)
         \o ser_entries(m, Tail(order), is_value)

\* a HashMap, its entries in the order of its iterator
ser_map(m, order, is_value) == <<123>> \o ser_entries(m, order, is_value) \o <<125>>

\* serde_json::to_vec(session) (line 223): the fields of Session and of
\* Credentials in the order of their declaration (line 14-18, 37-45)
to_vec(s, cookie_order, metadata_order) ==
    <<123>>
    \o Field("id", <<StrCode(s.id)>>) \o <<44>>
    \o Field("credentials",
             <<123>> \o Field("username", <<StrCode(s.credentials.username)>>) \o <<44>>
                     \o Field("password", <<StrCode(s.credentials.password)>>) \o <<44>>
                     \o Field("email", ser_option(s.credentials.email)) \o <<125>>)
    \o <<44>>
    \o Field("cookies", ser_map(s.cookies, cookie_order, FALSE)) \o <<44>>
    \o Field("created_at", ser_time(s.created_at)) \o <<44>>
    \o Field("last_used", ser_time(s.last_used)) \o <<44>>
    \o Field("is_valid", ser_bool(s.is_valid)) \o <<44>>
    \o Field("metadata", ser_map(s.metadata, metadata_order, TRUE))
    \o <<125>>

\* the parsers return the value read and the place after it, or fail
Parsed(v, next) == [ok |-> TRUE, value |-> v, next |-> next]
Failed == [ok |-> FALSE, value |-> <<>>, next |-> 0]

At(text, i) == IF i >= 1 /\ i <= Len(text) THEN text[i] ELSE 0

\* the byte c is expected at place i
Expect(text, i, c) == At(text, i) = c

de_string(text, i) ==
    IF IsStr(At(text, i)) THEN Parsed(StrOf(text[i]), i + 1) ELSE Failed

de_bool(text, i) ==
    IF At(text, i) = 116 THEN Parsed(TRUE, i + 1)
    ELSE IF At(text, i) = 102 THEN Parsed(FALSE, i + 1) ELSE Failed

de_option(text, i) ==
    IF At(text, i) = 110 THEN Parsed(None, i + 1)
    ELSE IF IsStr(At(text, i)) THEN Parsed(Some(StrOf(text[i])), i + 1) ELSE Failed

de_time(text, i) ==
    IF At(text, i) >= 48 /\ At(text, i) <= 57 THEN Parsed(text[i] - 48, i + 1) ELSE Failed

de_value(text, i) ==
    IF At(text, i) = 116 THEN Parsed("true", i + 1)
    ELSE IF IsStr(At(text, i)) THEN Parsed(StrOf(text[i]), i + 1) ELSE Failed

\* the value of the field name at place i, followed by the byte sep
de_field(text, i, name, parsed_at, sep) ==
    IF Expect(text, i, StrCode(name)) /\ Expect(text, i + 1, 58)
    THEN LET v == parsed_at
         IN IF v.ok /\ Expect(text, v.next, sep) THEN Parsed(v.value, v.next + 1)
            ELSE Failed
    ELSE Failed

\* a HashMap: the entries up to the closing brace; a key that comes twice
\* keeps its last value
RECURSIVE de_entries(_, _, _, _)
de_entries(text, i, m, is_value) ==
    IF IsStr(At(text, i)) /\ Expect(text, i + 1, 58) THEN
        LET v == IF is_value THEN de_value(text, i + 2) ELSE de_string(text, i + 2)
            k == StrOf(text[i])
            m2 == [n \in DOMAIN m \cup {k} |-> IF n = k THEN v.value ELSE m[n]]
        IN IF ~v.ok THEN Failed
           ELSE IF Expect(text, v.next, 44) THEN de_entries(text, v.next + 1, m2, is_value)
           ELSE IF Expect(text, v.next, 125) THEN Parsed(m2, v.next + 1)
           ELSE Failed
    ELSE Failed

de_map(text, i, is_value) ==
    IF ~Expect(text, i, 123) THEN Failed
    ELSE IF Expect(text, i + 1, 125) THEN Parsed(<<>>, i + 2)
    ELSE de_entries(text, i + 1, <<>>, is_value)

de_credentials(text, i) ==
    IF ~Expect(text, i, 123) THEN Failed
    ELSE LET u == de_field(text, i + 1, "username", de_string(text, i + 3), 44)
             p == de_field(text, u.next, "password", de_string(text, u.next + 2), 44)
             e == de_field(text, p.next, "email", de_option(text, p.next + 2), 125)
         IN IF u.ok /\ p.ok /\ e.ok
            THEN Parsed([username |-> u.value, password |-> p.value, email |-> e.value],
                        e.next)
            ELSE Failed

\* serde_json::from_slice::<Session>(session_data) (line 259)
from_slice_mut_valid_default(text) ==
    IF ~Expect(text, 1, 123) THEN Err("Failed to deserialize session data")
    ELSE
    LET id == de_field(text, 2, "id", de_string(text, 4), 44)
        cr == de_field(text, id.next, "credentials", de_credentials(text, id.next + 2), 44)
        co == de_field(text, cr.next, "cookies", de_map(text, cr.next + 2, FALSE), 44)
        ca == de_field(text, co.next, "created_at", de_time(text, co.next + 2), 44)
        lu == de_field(text, ca.next, "last_used", de_time(text, ca.next + 2), 44)
        iv == de_field(text, lu.next, "is_valid", de_bool(text, lu.next + 2), 44)
        me == de_field(text, iv.next, "metadata", de_map(text, iv.next + 2, TRUE), 125)
    IN IF id.ok /\ cr.ok /\ co.ok /\ ca.ok /\ lu.ok /\ iv.ok /\ me.ok
          /\ me.next = Len(text) + 1
       THEN Ok([id |-> id.value, credentials |-> cr.value, cookies |-> co.value,
                created_at |-> ca.value, last_used |-> lu.value,
                is_valid |-> TRUE, metadata |-> me.value])
       ELSE Err("Failed to deserialize session data")
from_slice(text) ==
    IF ~Expect(text, 1, 123) THEN Err("Failed to deserialize session data")
    ELSE
    LET id == de_field(text, 2, "id", de_string(text, 4), 44)
        cr == de_field(text, id.next, "credentials", de_credentials(text, id.next + 2), 44)
        co == de_field(text, cr.next, "cookies", de_map(text, cr.next + 2, FALSE), 44)
        ca == de_field(text, co.next, "created_at", de_time(text, co.next + 2), 44)
        lu == de_field(text, ca.next, "last_used", de_time(text, ca.next + 2), 44)
        iv == de_field(text, lu.next, "is_valid", de_bool(text, lu.next + 2), 44)
        me == de_field(text, iv.next, "metadata", de_map(text, iv.next + 2, TRUE), 125)
    IN IF id.ok /\ cr.ok /\ co.ok /\ ca.ok /\ lu.ok /\ iv.ok /\ me.ok
          /\ me.next = Len(text) + 1
       THEN Ok([id |-> id.value, credentials |-> cr.value, cookies |-> co.value,
                created_at |-> ca.value, last_used |-> lu.value,
                is_valid |-> iv.value, metadata |-> me.value])
       ELSE Err("Failed to deserialize session data")

\* SessionManager::with_sessions_dir (line 93-110): an empty directory
SessionInit ==
    /\ files = [id \in SessionIds |-> None]
    /\ swpc = [w \in SessionWriters |-> "idle"]
    /\ session_file = [w \in SessionWriters |-> "s1"]
    /\ w_encrypted_data = [w \in SessionWriters |-> <<>>]
    /\ persisting = [w \in SessionWriters |-> None]
    /\ nops = 0
    /\ rpc = "idle"
    /\ r_session_id = "s1"
    /\ r_encrypted_data = <<>>
    /\ restored = None
    /\ r_expect = None
    /\ stable = [id \in SessionIds |-> None]

\* a restore_session call in progress on the file of id no longer reads
\* what the last persist_session left
Disturb(id) == IF rpc \in {"exists", "read"} /\ r_session_id = id THEN None ELSE r_expect

\* persist_session line 218-228: the session is serialized and encrypted
PersistSeal(w, s, cookie_order, metadata_order) ==
    /\ swpc[w] = "idle"
    /\ nops < MaxSessionOps
    /\ nops' = nops + 1
    /\ session_file' = [session_file EXCEPT ![w] = s.id]
    /\ w_encrypted_data' = [w_encrypted_data EXCEPT ![w] =
            encrypt_data(DefaultSessionKey, to_vec(s, cookie_order, metadata_order))]
    /\ persisting' = [persisting EXCEPT ![w] = Some(s)]
    /\ swpc' = [swpc EXCEPT ![w] = "create"]
    /\ UNCHANGED <<files, rpc, r_session_id, r_encrypted_data, restored, r_expect, stable>>
    /\ UNCHANGED notSession

\* fs::write (line 231): the file is created or truncated
PersistCreate(w) ==
    /\ swpc[w] = "create"
    /\ files' = [files EXCEPT ![session_file[w]] = Some(<<>>)]
    /\ stable' = [stable EXCEPT ![session_file[w]] = None]
    /\ r_expect' = Disturb(session_file[w])
    /\ swpc' = [swpc EXCEPT ![w] = "write"]
    /\ UNCHANGED <<session_file, w_encrypted_data, persisting, nops, rpc, r_session_id,
                   r_encrypted_data, restored>>
    /\ UNCHANGED notSession

\* fs::write (line 231-236): the bytes are written and persist_session returns
PersistWrite(w) ==
    /\ swpc[w] = "write"
    /\ files' = [files EXCEPT ![session_file[w]] = Some(w_encrypted_data[w])]
    /\ stable' = [stable EXCEPT ![session_file[w]] = persisting[w]]
    /\ r_expect' = Disturb(session_file[w])
    /\ swpc' = [swpc EXCEPT ![w] = "idle"]
    /\ persisting' = [persisting EXCEPT ![w] = None]
    /\ w_encrypted_data' = [w_encrypted_data EXCEPT ![w] = <<>>]
    /\ UNCHANGED <<session_file, nops, rpc, r_session_id, r_encrypted_data, restored>>
    /\ UNCHANGED notSession

\* delete_session (line 360-372)
DeleteSession(w, session_id) ==
    /\ swpc[w] = "idle"
    /\ nops < MaxSessionOps
    /\ nops' = nops + 1
    /\ files[session_id] # None
    /\ files' = [files EXCEPT ![session_id] = None]
    /\ stable' = [stable EXCEPT ![session_id] = None]
    /\ r_expect' = Disturb(session_id)
    /\ UNCHANGED <<swpc, session_file, w_encrypted_data, persisting, rpc, r_session_id,
                   r_encrypted_data, restored>>
    /\ UNCHANGED notSession

\* restore_session line 241-245: session_file.exists()
RestoreExists(session_id) ==
    /\ rpc \in {"idle", "done"}
    /\ r_session_id' = session_id
    /\ r_encrypted_data' = <<>>
    /\ IF files[session_id] = None
       THEN /\ restored' = Some(Err("Session file not found"))
            /\ rpc' = "done"
            /\ r_expect' = None
       ELSE /\ restored' = None
            /\ rpc' = "exists"
            /\ r_expect' = stable[session_id]
    /\ UNCHANGED <<files, swpc, session_file, w_encrypted_data, persisting, nops, stable>>
    /\ UNCHANGED notSession

\* restore_session line 250-252: fs::read
RestoreRead ==
    /\ rpc = "exists"
    /\ IF files[r_session_id] = None
       THEN /\ restored' = Some(Err("Failed to read session file"))
            /\ rpc' = "done"
            /\ UNCHANGED r_encrypted_data
       ELSE /\ r_encrypted_data' = files[r_session_id][1]
            /\ rpc' = "read"
            /\ UNCHANGED restored
    /\ UNCHANGED <<files, swpc, session_file, w_encrypted_data, persisting, nops,
                   r_session_id, r_expect, stable>>
    /\ UNCHANGED notSession

\* restore_session line 255-263: decrypt_data and serde_json::from_slice
RestoreOpen ==
    /\ rpc = "read"
    /\ LET session_data == decrypt_data(DefaultSessionKey, r_encrypted_data)
       IN restored' = Some(IF session_data.ok THEN from_slice(session_data.value)
                           ELSE Err("Failed to decrypt session data"))
    /\ rpc' = "done"
    /\ UNCHANGED <<files, swpc, session_file, w_encrypted_data, persisting, nops,
                   r_session_id, r_encrypted_data, r_expect, stable>>
    /\ UNCHANGED notSession

SessionStore ==
    \/ \E w \in SessionWriters, s \in Sessions :
         \E cookie_order \in Orders(DOMAIN s.cookies),
            metadata_order \in Orders(DOMAIN s.metadata) :
             PersistSeal(w, s, cookie_order, metadata_order)
    \/ \E w \in SessionWriters : PersistCreate(w)
    \/ \E w \in SessionWriters : PersistWrite(w)
    \/ \E w \in SessionWriters, session_id \in SessionIds : DeleteSession(w, session_id)
    \/ \E session_id \in SessionIds : RestoreExists(session_id)
    \/ RestoreRead
    \/ RestoreOpen

----------------------------------------------------------------------------
(* ProxyManager::get_next_proxy called sequentially (proxy/manager.rs) *)

\* line 87: max_attempts = self.total_proxies
max_attempts_mut_one_more(n) == n + 1
max_attempts(n) == n

\* line 90: the cursor after current_index.fetch_add(1, Relaxed)
cursor_after_mut_no_advance(cur) == cur
cursor_after(cur) == cur + 1

\* the outcome of a call: the proxy ("None" for None), the cursor it leaves
\* and the number of proxies whose health bit it read
Outcome(proxy, cursor, n) == [proxy |-> proxy, cursor |-> cursor, examined |-> n]

RECURSIVE scan(_, _, _, _)
\* line 89-108: the while loop, entered with the cursor cur and attempts att
scan(ps, status, cur, att) ==
    IF att < max_attempts(Len(ps))
    THEN LET proxy_id == ps[scan_index(cur, Len(ps)) + 1]
         IN  IF is_healthy(status, proxy_id)
             THEN Outcome(proxy_id, cursor_after(cur), att + 1)
             ELSE scan(ps, status, cursor_after(cur), att + 1)
    ELSE Outcome("None", cur, att)

\* ProxyManager::get_next_proxy (line 81-109) when no other call overlaps it
get_next_proxy(ps, status, cur) ==
    IF Len(ps) = 0 THEN Outcome("None", cur, 0) ELSE scan(ps, status, cur, 0)

\* the pool and the health bits of the partial-health scenario
PartialHealthPool == <<"A:1", "B:2", "C:3">>
PartialHealthStatus == [k \in {"A:1", "B:2", "C:3"} |-> k # "B:2"]

SeqInit ==
    /\ returned = <<>>
    /\ examined = 0
    /\ partial_health = TRUE

\* one whole get_next_proxy call
GetNextProxy ==
    /\ Len(returned) < MaxSeqCalls
    /\ LET r == get_next_proxy(proxies, health_status, current_index)
       IN  /\ returned' = Append(returned, r.proxy)
           /\ current_index' = r.cursor
           /\ examined' = r.examined
    /\ partial_health' = (/\ partial_health
                          /\ proxies = PartialHealthPool
                          /\ health_status = PartialHealthStatus)
    /\ UNCHANGED <<proxies, health_status, ppc, attempts, current_idx,
                   last_returned, ncalls, nreturned, stayedHealthy, pristine>>
    /\ UNCHANGED notProxyNorSeq

\* set_proxy_health for a member of the pool, between two calls
SeqSetProxyHealth ==
    \E proxy_id \in ProxyIds, b \in BOOLEAN :
        /\ proxy_id \in Members
        /\ SetProxyHealth(proxy_id, b)

----------------------------------------------------------------------------
(* MonitorEngine and the event receivers (core/monitor.rs:117-121, 272-330) *)

\* MonitorEngine::new (line 281-287)
EngineInit ==
    /\ engine_is_running = FALSE
    /\ added = FALSE
    /\ abort_requested = FALSE
    /\ received = <<>>
    /\ own_receiver = "none"
    /\ own_from = 0

\* the events that can ever be taken from the receiver get_event_receiver
\* returned: its channel is made at line 118 and the sender is dropped at
\* once, so nothing is ever queued in it
OwnChannel == <<>>

\* where a spawned task has returned Poll::Pending or was not polled yet;
\* JoinHandle::abort takes effect there
MonitorSuspended == mpc \in {"new", "tick", "check"}

\* MonitorTask::get_event_receiver (line 117-121), on a task not yet moved
\* into the engine
GetEventReceiver ==
    /\ ~added
    /\ own_receiver = "none"
    /\ own_receiver' = "handed"
    /\ own_from' = Len(emitted)
    /\ UNCHANGED <<engine_is_running, added, abort_requested, received>>
    /\ UNCHANGED monVars
    /\ UNCHANGED notMonNorEngine

\* recv() on that receiver: every sender is gone and the queue is empty, so
\* it returns None
OwnRecv ==
    /\ own_receiver = "handed"
    /\ Len(OwnChannel) = 0
    /\ own_receiver' = "closed"
    /\ UNCHANGED <<engine_is_running, added, abort_requested, received, own_from>>
    /\ UNCHANGED monVars
    /\ UNCHANGED notMonNorEngine

\* MonitorEngine::add_monitor (line 290-306): a new channel, its sender put
\* in place of the task's, tokio::spawn(task.run()), the receiver returned.
\* The clone of the engine's is_running (line 299) is not given to the task.
EngineAddMonitor ==
    /\ ~added
    /\ mpc = "new"
    /\ added' = TRUE
    /\ event_sender' = "add_monitor"
    /\ channel' = <<>>
    /\ UNCHANGED <<engine_is_running, abort_requested, received, own_receiver, own_from>>
    /\ UNCHANGED <<is_running, max_retries, mpc, last_availability, attempt, nticks,
                   obs, emitted, stop_returned>>
    /\ UNCHANGED notMonNorEngine

\* MonitorEngine::start (line 309-314)
EngineStart ==
    /\ ~engine_is_running
    /\ engine_is_running' = TRUE
    /\ UNCHANGED <<added, abort_requested, received, own_receiver, own_from>>
    /\ UNCHANGED monVars
    /\ UNCHANGED notMonNorEngine

\* MonitorEngine::stop (line 317-329): the bit is cleared and abort() is
\* called on every task that has not finished
EngineStop ==
    /\ engine_is_running
    /\ engine_is_running' = FALSE
    /\ abort_requested' = (abort_requested \/ (added /\ mpc \notin {"stopped", "aborted"}))
    /\ UNCHANGED <<added, received, own_receiver, own_from>>
    /\ UNCHANGED monVars
    /\ UNCHANGED notMonNorEngine

\* the effect of JoinHandle::abort (line 325): the task is dropped where it
\* is suspended
MonitorAborted ==
    /\ abort_requested
    /\ MonitorSuspended
    /\ mpc' = "aborted"
    /\ UNCHANGED <<is_running, max_retries, last_availability, attempt, nticks,
                   obs, emitted, event_sender, channel, stop_returned>>
    /\ UNCHANGED engineVars
    /\ UNCHANGED notMonNorEngine

\* recv() on the receiver add_monitor returned
EngineRecv ==
    /\ added
    /\ Len(channel) > 0
    /\ received' = Append(received, Head(channel))
    /\ channel' = Tail(channel)
    /\ UNCHANGED <<engine_is_running, added, abort_requested, own_receiver, own_from>>
    /\ UNCHANGED <<is_running, max_retries, mpc, last_availability, attempt, nticks,
                   obs, emitted, event_sender, stop_returned>>
    /\ UNCHANGED notMonNorEngine

\* the steps of MonitorTask::run, of the spawned task or of a caller of
\* run(); a task on which abort() was called and which is suspended on its
\* first poll or on the request is not polled again
EMRunStart == ~abort_requested /\ MRunStart
EMLoopCheck == MLoopCheck
EMTick == MTick
EMCheckOk == ~abort_requested /\ \E response \in Responses : MCheckOk(response)
EMCheckErr == ~abort_requested /\ MCheckErr
\* MonitorTask::stop can be called on a task that was not moved into the engine
EMStop == ~added /\ MStop

----------------------------------------------------------------------------
(* Session objects and SessionManager::validate_session
   (core/session.rs:37-75, 267-323) *)

\* the HTTP statuses the validation endpoint answers with
PingStatuses == {200, 204, 302, 401}

\* ping_validation_endpoint (line 301-323): valid iff the status is 2xx
ping_valid(status) == status >= 200 /\ status < 300

\* no Session object exists yet
ValidateInit ==
    /\ live = [id \in SessionIds |-> None]
    /\ utc_now = 0
    /\ vpc = [id \in SessionIds |-> "idle"]

\* time passes
UtcTick ==
    /\ utc_now < MaxUtc
    /\ utc_now' = utc_now + 1
    /\ UNCHANGED <<live, vpc>>
    /\ UNCHANGED notValidate

\* Session::new (line 48-59): is_valid starts true, both times are now
SessionNew(id) ==
    /\ live[id] = None
    /\ live' = [live EXCEPT ![id] =
                  Some([is_valid |-> TRUE, created_at |-> utc_now, last_used |-> utc_now])]
    /\ UNCHANGED <<utc_now, vpc>>
    /\ UNCHANGED notValidate

\* validate_session up to the ping (line 267-280): update_last_used
\* (line 61-63), then the request is awaited
ValidateBegin(id) ==
    /\ live[id] # None
    /\ vpc[id] = "idle"
    /\ live' = [live EXCEPT ![id] = Some([live[id][1] EXCEPT !.last_used = utc_now])]
    /\ vpc' = [vpc EXCEPT ![id] = "ping"]
    /\ UNCHANGED utc_now
    /\ UNCHANGED notValidate

\* the ping answered (line 282-291): session.is_valid = is_valid
ValidateOk(id, status) ==
    /\ vpc[id] = "ping"
    /\ live' = [live EXCEPT ![id] = Some([live[id][1] EXCEPT !.is_valid = ping_valid(status)])]
    /\ vpc' = [vpc EXCEPT ![id] = "idle"]
    /\ UNCHANGED utc_now
    /\ UNCHANGED notValidate

\* the ping failed (line 292-296): session.is_valid = false
ValidateErr(id) ==
    /\ vpc[id] = "ping"
    /\ live' = [live EXCEPT ![id] = Some([live[id][1] EXCEPT !.is_valid = FALSE])]
    /\ vpc' = [vpc EXCEPT ![id] = "idle"]
    /\ UNCHANGED utc_now
    /\ UNCHANGED notValidate

----------------------------------------------------------------------------
(* SessionManager::cleanup_expired_sessions, run next to the writers
   (core/session.rs:340-401) *)

\* the readings of chrono::Utc::now() and the max_age_days given to a sweep
SweepClock == {2, 3}
MaxAgeDays == {0, 1, 2}

\* the task that calls persist_session and delete_session while the sweep runs
SweepWriters == {1}

\* the order of sessions.sort() (line 356)
SortedIds == <<"s1", "s2">>

\* list_sessions (line 340-358): the stems of the *.bin files, sorted
list_sessions(dir) ==
    LET is_bin(id) == dir[id] # None
    IN SelectSeq(SortedIds, is_bin)

\* line 384: session.last_used < cutoff_time
expired_mut_inclusive(last_used, cutoff) == last_used <= cutoff
expired(last_used, cutoff) == last_used < cutoff

\* the for loop (line 381) goes on to the next id or ends (line 399-400)
loop_on(at) == IF at < Len(sessions) THEN "restore" ELSE "done"

\* no sweep was started
SweepInit ==
    /\ sweep_pc = "idle"
    /\ cutoff_time = 0
    /\ sessions = <<>>
    /\ sweep_at = 0
    /\ arm = "none"
    /\ cleaned_count = 0
    /\ start_mark = None

\* cleanup_expired_sessions line 376-379
CleanupStart(now, max_age_days) ==
    /\ sweep_pc = "idle"
    /\ rpc = "idle"
    /\ cleaned_count' = 0
    /\ cutoff_time' = now - max_age_days
    /\ sessions' = list_sessions(files)
    /\ sweep_at' = 1
    /\ sweep_pc' = IF list_sessions(files) = <<>> THEN "done" ELSE "restore"
    /\ start_mark' = Some([files |-> files, nops |-> nops, swpc |-> swpc])
    /\ UNCHANGED arm
    /\ UNCHANGED sessionVars
    /\ UNCHANGED notSessionNorSweep

\* line 382: self.restore_session(&session_id), in its three steps
SweepRestoreExists == sweep_pc = "restore" /\ rpc = "idle" /\ RestoreExists(sessions[sweep_at])
SweepRestoreRead == sweep_pc = "restore" /\ RestoreRead
SweepRestoreOpen == sweep_pc = "restore" /\ RestoreOpen

\* line 382-396: the match on what restore_session returned
CleanupMatch ==
    /\ sweep_pc = "restore"
    /\ rpc = "done"
    /\ LET r == restored[1]
           taken == IF r.ok
                    THEN IF expired(r.value.last_used, cutoff_time) THEN "expired" ELSE "keep"
                    ELSE "corrupt"
       IN /\ arm' = taken
          /\ IF taken = "keep"
             THEN /\ sweep_pc' = loop_on(sweep_at)
                  /\ sweep_at' = sweep_at + 1
             ELSE /\ sweep_pc' = "delete"
                  /\ UNCHANGED sweep_at
    /\ rpc' = "idle"
    /\ restored' = None
    /\ r_encrypted_data' = <<>>
    /\ r_expect' = None
    /\ UNCHANGED <<cutoff_time, sessions, cleaned_count, start_mark>>
    /\ UNCHANGED <<files, swpc, session_file, w_encrypted_data, persisting, nops,
                   r_session_id, stable>>
    /\ UNCHANGED notSessionNorSweep

\* line 385-386, 393-394: delete_session (line 360-372) removes the file if
\* it exists and returns Ok(()) either way, then cleaned_count += 1
CleanupDelete ==
    /\ sweep_pc = "delete"
    /\ LET session_id == sessions[sweep_at]
       IN IF files[session_id] # None
          THEN /\ files' = [files EXCEPT ![session_id] = None]
               /\ stable' = [stable EXCEPT ![session_id] = None]
          ELSE UNCHANGED <<files, stable>>
    /\ cleaned_count' = cleaned_count + 1
    /\ sweep_pc' = loop_on(sweep_at)
    /\ sweep_at' = sweep_at + 1
    /\ UNCHANGED <<cutoff_time, sessions, arm, start_mark>>
    /\ UNCHANGED <<swpc, session_file, w_encrypted_data, persisting, nops, rpc,
                   r_session_id, r_encrypted_data, restored, r_expect>>
    /\ UNCHANGED notSessionNorSweep

----------------------------------------------------------------------------
(* Database: the tasks table (storage/database.rs:101-112, 201-326) *)

\* the task ids, statuses and error messages the callers pass
DbTaskIds == {200, 201}
DbStatuses == {"pending", "running", "completed", "failed", "cancelled"}
DbErrors == {None, Some("boom")}

\* the Option<DateTime<Utc>> values the callers pass
DbTimes == {None} \cup {Some(t) : t \in 0 .. MaxDbClock}

\* Database::in_memory (line 81-93): the table is empty
DbInit ==
    /\ tasks = <<>>
    /\ db_now = 0
    /\ db_ops = 0

\* time passes
DbTick ==
    /\ db_now < MaxDbClock
    /\ db_now' = db_now + 1
    /\ UNCHANGED <<tasks, db_ops>>
    /\ UNCHANGED notDb

\* insert_task (line 201-215): a row with the status given, no started_at,
\* no completed_at, created_at = updated_at = now; task_id is UNIQUE, so a
\* second insert of the id fails and changes nothing
InsertTask(task_id, status) ==
    /\ db_ops < MaxDbOps
    /\ db_ops' = db_ops + 1
    /\ tasks' = IF task_id \in DOMAIN tasks THEN tasks
                ELSE insert(tasks, task_id,
                            [status |-> status, started_at |-> None, completed_at |-> None,
                             error_message |-> None, created_at |-> db_now,
                             updated_at |-> db_now])
    /\ UNCHANGED db_now
    /\ UNCHANGED notDb

\* update_task_status (line 218-240): the row of task_id, if there is one,
\* takes the status, started_at, completed_at and error_message given and
\* updated_at = now
UpdateTaskStatus(task_id, status, started_at, completed_at, error_message) ==
    /\ db_ops < MaxDbOps
    /\ db_ops' = db_ops + 1
    /\ tasks' = IF task_id \notin DOMAIN tasks THEN tasks
                ELSE [tasks EXCEPT ![task_id] =
                        [@ EXCEPT !.status = status, !.started_at = started_at,
                                  !.completed_at = completed_at,
                                  !.error_message = error_message,
                                  !.updated_at = db_now]]
    /\ UNCHANGED db_now
    /\ UNCHANGED notDb

\* delete_task (line 316-324)
DeleteTask(task_id) ==
    /\ db_ops < MaxDbOps
    /\ db_ops' = db_ops + 1
    /\ tasks' = [id \in DOMAIN tasks \ {task_id} |-> tasks[id]]
    /\ UNCHANGED db_now
    /\ UNCHANGED notDb

----------------------------------------------------------------------------
(* CaptchaSolver::poll_result (captcha/solver.rs:128-179) *)

\* line 13 and 15
MAX_POLLING_ATTEMPTS == 60
POLLING_INTERVAL == 5

\* texts are sequences of characters
NotReadyText == <<"C","A","P","C","H","A","_","N","O","T","_","R","E","A","D","Y">>
OkPrefix == <<"O","K","|">>

\* the bodies the service answers with: not ready, a token, an empty token,
\* an error code, and near misses of the two texts the code looks for
ResponseTexts ==
    { NotReadyText,
      OkPrefix \o <<"t","1">>,
      OkPrefix \o <<"t","2">>,
      OkPrefix,
      <<"O","K">>,
      <<"o","k","|","t","1">>,
      NotReadyText \o <<" ">>,
      <<"E","R","R","O","R">> }

\* the ways a request ends without a body: the timeout of line 139-145, the
\* send error of line 146 and the read error of line 148-151
PollFailures == {"Request timeout", "Failed to poll result", "Failed to read response"}

\* str::starts_with and str::strip_prefix (line 167-170)
starts_with(text, prefix) ==
    /\ Len(text) >= Len(prefix)
    /\ Take(text, Len(prefix)) = prefix
strip_prefix(text, prefix) == Drop(text, Len(prefix))

\* line 156: the attempt that gives up instead of sleeping
last_attempt_mut_never(a) == FALSE
last_attempt(a) == a = MAX_POLLING_ATTEMPTS

PollOk(token) == [ok |-> TRUE, value |-> token]
PollErr(msg) == [ok |-> FALSE, value |-> msg]

PollInit ==
    /\ poll_pc = "idle"
    /\ poll_attempt = 0
    /\ poll_log = <<>>
    /\ poll_slept = 0
    /\ poll_result = None

\* line 128-131: the call enters the loop for attempt in 1..=MAX_POLLING_ATTEMPTS
PollStart ==
    /\ poll_pc = "idle"
    /\ poll_pc' = "request"
    /\ poll_attempt' = 1
    /\ UNCHANGED <<poll_log, poll_slept, poll_result>>
    /\ UNCHANGED notPoll

\* line 139-151: the request times out, cannot be sent, or its body cannot be
\* read; the ? operator returns the error
PollRequestFails(failure) ==
    /\ poll_pc = "request"
    /\ poll_log' = Append(poll_log, [received |-> FALSE, text |-> <<failure>>])
    /\ poll_result' = Some(PollErr(<<failure>>))
    /\ poll_pc' = "returned"
    /\ UNCHANGED <<poll_attempt, poll_slept>>
    /\ UNCHANGED notPoll

\* line 153-175: the body of the response decides
PollResponse(response_text) ==
    /\ poll_pc = "request"
    /\ poll_log' = Append(poll_log, [received |-> TRUE, text |-> response_text])
    /\ IF response_text = NotReadyText
       THEN IF last_attempt(poll_attempt)
            THEN /\ poll_result' = Some(PollErr(<<"Captcha solving timeout after attempts">>))
                 /\ poll_pc' = "returned"
            ELSE /\ poll_pc' = "sleep"
                 /\ UNCHANGED poll_result
       ELSE IF starts_with(response_text, OkPrefix)
            THEN /\ poll_result' = Some(PollOk(strip_prefix(response_text, OkPrefix)))
                 /\ poll_pc' = "returned"
            ELSE /\ poll_result' = Some(PollErr(<<"Failed to solve captcha">> \o response_text))
                 /\ poll_pc' = "returned"
    /\ UNCHANGED <<poll_attempt, poll_slept>>
    /\ UNCHANGED notPoll

\* line 163-164 and 131: sleep(POLLING_INTERVAL), continue; the loop goes on
\* while attempt <= MAX_POLLING_ATTEMPTS and line 178 returns otherwise
PollSleep ==
    /\ poll_pc = "sleep"
    /\ poll_slept' = poll_slept + POLLING_INTERVAL
    /\ poll_attempt' = poll_attempt + 1
    /\ IF poll_attempt + 1 <= MAX_POLLING_ATTEMPTS
       THEN /\ poll_pc' = "request"
            /\ UNCHANGED poll_result
       ELSE /\ poll_pc' = "returned"
            /\ poll_result' = Some(PollErr(<<"Captcha solving timeout">>))
    /\ UNCHANGED poll_log
    /\ UNCHANGED notPoll

----------------------------------------------------------------------------
\* a subsystem that is not part of a specification: built and left alone
ProxyIdle ==
    /\ proxies = <<>>
    /\ current_index = 0
    /\ health_status = <<>>
    /\ ppc = [c \in ProxyCallers |-> "idle"]
    /\ attempts = [c \in ProxyCallers |-> 0]
    /\ current_idx = [c \in ProxyCallers |-> 0]
    /\ last_returned = "-"
    /\ ncalls = 0
    /\ nreturned = 0
    /\ stayedHealthy = [c \in ProxyCallers |-> {}]
    /\ pristine = TRUE

TMIdle ==
    /\ max_concurrent = 1
    /\ permits = 1
    /\ task_store = <<>>
    /\ task_id_counter = 0
    /\ shutdownFlag = FALSE
    /\ task_handles = {}
    /\ subscribed = {}
    /\ rxmsg = {}
    /\ aborted = {}
    /\ wpc = [id \in TaskIds |-> "none"]
    /\ holds = {}
    /\ outcome = [id \in TaskIds |-> "none"]
    /\ checked = 0
    /\ cpc = [id \in TaskIds |-> "none"]
    /\ refused = 0
    /\ submits = 0
    /\ issued = <<>>
    /\ spc = "idle"
    /\ remaining_tasks = 0
    /\ startedInShutdown = {}

MonitorIdle ==
    /\ is_running = FALSE
    /\ max_retries = 0
    /\ mpc = "new"
    /\ last_availability = None
    /\ attempt = 0
    /\ nticks = 0
    /\ obs = <<>>
    /\ emitted = <<>>
    /\ event_sender = "new"
    /\ channel = <<>>
    /\ stop_returned = FALSE

HttpIdle ==
    /\ retry_config = [max_retries |-> 0, base_delay_ms |-> 1, max_delay_ms |-> 2,
                       backoff_multiplier_halves |-> 2]
    /\ hpc = "idle"
    /\ http_attempt = 0
    /\ http_delay = 0
    /\ http_last_error = None
    /\ http_result = None
    /\ http_trace = <<>>
    /\ http_slept = <<>>

CheckoutIdle ==
    /\ checkout_config = [add_to_cart_retries |-> 0, checkout_url_retries |-> 0,
                          payment_retries |-> 0, submission_retries |-> 0,
                          base_delay_ms |-> 1, max_delay_ms |-> 1,
                          backoff_multiplier_halves |-> 2]
    /\ session_is_valid = FALSE
    /\ copc = "idle"
    /\ co_attempt = 0
    /\ co_delay = 0
    /\ captcha_token = None
    /\ solver_args = None
    /\ captcha_detection = None
    /\ co_log = <<>>
    /\ co_result = None

EnvelopeIdle ==
    /\ envelope = "config"
    /\ epc = "idle"
    /\ env_plaintext = <<>>
    /\ sealed = <<>>
    /\ presented = <<>>
    /\ altered_at = 0
    /\ opened = None

SessionIdle == SessionInit

SeqIdle == SeqInit

EngineIdle == EngineInit

ValidateIdle == ValidateInit

SweepIdle == SweepInit

DbIdle == DbInit

PollIdle == PollInit

----------------------------------------------------------------------------
(* The specifications *)

InitTM == TMInit /\ ProxyIdle /\ MonitorIdle /\ HttpIdle /\ CheckoutIdle /\ EnvelopeIdle /\ SessionIdle /\ SeqIdle /\ EngineIdle /\ ValidateIdle /\ SweepIdle /\ DbIdle /\ PollIdle

NextTM == Submit \/ Worker \/ Shutdown

SpecTM == InitTM /\ [][NextTM]_vars

\* the steps of the worker spawned for one task
WorkerOf(id) ==
    \/ WTryAcquire(id)
    \/ WSelectAcquire(id)
    \/ WCheckShutdown(id)
    \/ WStoreRunning(id)
    \/ WSelectExec(id)
    \/ WStoreFinal(id)
    \/ WDropPermit(id)
    \/ WRemoveHandle(id)
    \/ WExit(id)
    \/ WAborted(id)

\* scheduling: a submit_task call that passed the flag check runs to its
\* return, the runtime keeps polling every worker that can take a step, and
\* a shutdown() call that started runs to its return.  Whether and when
\* submit_task and shutdown are called is left to the callers.
FairTM ==
    /\ WF_vars(SubmitAlloc)
    /\ \A id \in TaskIds :
          /\ WF_vars(SubmitSpawn(id))
          /\ WF_vars(SubmitHandle(id))
          /\ WF_vars(WorkerOf(id))
    /\ WF_vars(ShutdownSend \/ ShutdownCollect \/ ShutdownPoll \/ ShutdownFinish)

SpecTMFair == InitTM /\ [][NextTM]_vars /\ FairTM

InitProxy == ProxyInit /\ TMIdle /\ MonitorIdle /\ HttpIdle /\ CheckoutIdle /\ EnvelopeIdle /\ SessionIdle /\ SeqIdle /\ EngineIdle /\ ValidateIdle /\ SweepIdle /\ DbIdle /\ PollIdle

NextPM == NextProxy \/ Health

SpecProxy == InitProxy /\ [][NextPM]_vars

InitMonitor == MonitorInit /\ TMIdle /\ ProxyIdle /\ HttpIdle /\ CheckoutIdle /\ EnvelopeIdle /\ SessionIdle /\ SeqIdle /\ EngineIdle /\ ValidateIdle /\ SweepIdle /\ DbIdle /\ PollIdle

NextMonitor == Monitor

SpecMonitor == InitMonitor /\ [][NextMonitor]_vars

InitHttp == HttpInit /\ TMIdle /\ ProxyIdle /\ MonitorIdle /\ CheckoutIdle /\ EnvelopeIdle /\ SessionIdle /\ SeqIdle /\ EngineIdle /\ ValidateIdle /\ SweepIdle /\ DbIdle /\ PollIdle

NextHttp == Http

SpecHttp == InitHttp /\ [][NextHttp]_vars

InitCheckout == CheckoutInit /\ TMIdle /\ ProxyIdle /\ MonitorIdle /\ HttpIdle /\ EnvelopeIdle /\ SessionIdle /\ SeqIdle /\ EngineIdle /\ ValidateIdle /\ SweepIdle /\ DbIdle /\ PollIdle

NextCheckout == Checkout

SpecCheckout == InitCheckout /\ [][NextCheckout]_vars

InitEnvelope == EnvelopeInit /\ ProxyIdle /\ TMIdle /\ MonitorIdle /\ HttpIdle /\ CheckoutIdle /\ SessionIdle /\ SeqIdle /\ EngineIdle /\ ValidateIdle /\ SweepIdle /\ DbIdle /\ PollIdle

NextEnvelope == Envelope

SpecEnvelope == InitEnvelope /\ [][NextEnvelope]_vars

InitSession == SessionInit /\ ProxyIdle /\ TMIdle /\ MonitorIdle /\ HttpIdle /\ CheckoutIdle /\ EnvelopeIdle /\ SeqIdle /\ EngineIdle /\ ValidateIdle /\ SweepIdle /\ DbIdle /\ PollIdle

NextSession == SessionStore

SpecSession == InitSession /\ [][NextSession]_vars

InitProxySeq == ProxyInit /\ SeqInit /\ TMIdle /\ MonitorIdle /\ HttpIdle /\ CheckoutIdle /\ EnvelopeIdle /\ SessionIdle /\ EngineIdle /\ ValidateIdle /\ SweepIdle /\ DbIdle /\ PollIdle

NextProxySeq == GetNextProxy \/ SeqSetProxyHealth

SpecProxySeq == InitProxySeq /\ [][NextProxySeq]_vars

InitEngine == MonitorInit /\ EngineInit /\ ProxyIdle /\ TMIdle /\ HttpIdle /\ CheckoutIdle /\ EnvelopeIdle /\ SessionIdle /\ SeqIdle /\ ValidateIdle /\ SweepIdle /\ DbIdle /\ PollIdle

NextEngine == 
    \/ GetEventReceiver
    \/ OwnRecv
    \/ EngineAddMonitor
    \/ EngineStart
    \/ EngineStop
    \/ MonitorAborted
    \/ EngineRecv
    \/ EMRunStart
    \/ EMLoopCheck
    \/ EMTick
    \/ EMCheckOk
    \/ EMCheckErr
    \/ EMStop

SpecEngine == InitEngine /\ [][NextEngine]_vars

InitValidate == ValidateInit /\ ProxyIdle /\ TMIdle /\ MonitorIdle /\ HttpIdle /\ CheckoutIdle /\ EnvelopeIdle /\ SessionIdle /\ SeqIdle /\ EngineIdle /\ SweepIdle /\ DbIdle /\ PollIdle

NextValidate == 
    \/ UtcTick
    \/ \E id \in SessionIds : SessionNew(id)
    \/ \E id \in SessionIds : ValidateBegin(id)
    \/ \E id \in SessionIds, status \in PingStatuses : ValidateOk(id, status)
    \/ \E id \in SessionIds : ValidateErr(id)

SpecValidate == InitValidate /\ [][NextValidate]_vars

InitSweep == SweepInit /\ ProxyIdle /\ TMIdle /\ MonitorIdle /\ HttpIdle /\ CheckoutIdle /\ EnvelopeIdle /\ SessionIdle /\ SeqIdle /\ EngineIdle /\ ValidateIdle /\ DbIdle /\ PollIdle

NextSweep == 
    \/ \E w \in SweepWriters, s \in Sessions :
         \E cookie_order \in Orders(DOMAIN s.cookies),
            metadata_order \in Orders(DOMAIN s.metadata) :
             PersistSeal(w, s, cookie_order, metadata_order)
    \/ \E w \in SweepWriters : PersistCreate(w)
    \/ \E w \in SweepWriters : PersistWrite(w)
    \/ \E w \in SweepWriters, session_id \in SessionIds : DeleteSession(w, session_id)
    \/ \E now \in SweepClock, max_age_days \in MaxAgeDays : CleanupStart(now, max_age_days)
    \/ SweepRestoreExists
    \/ SweepRestoreRead
    \/ SweepRestoreOpen
    \/ CleanupMatch
    \/ CleanupDelete

SpecSweep == InitSweep /\ [][NextSweep]_vars

InitDb == DbInit /\ ProxyIdle /\ TMIdle /\ MonitorIdle /\ HttpIdle /\ CheckoutIdle /\ EnvelopeIdle /\ SessionIdle /\ SeqIdle /\ EngineIdle /\ ValidateIdle /\ SweepIdle /\ PollIdle

NextDb == 
    \/ DbTick
    \/ \E task_id \in DbTaskIds, status \in DbStatuses : InsertTask(task_id, status)
    \/ \E task_id \in DbTaskIds, status \in DbStatuses,
          started_at \in DbTimes, completed_at \in DbTimes,
          error_message \in DbErrors :
            UpdateTaskStatus(task_id, status, started_at, completed_at, error_message)
    \/ \E task_id \in DbTaskIds : DeleteTask(task_id)

SpecDb == InitDb /\ [][NextDb]_vars

InitPoll == PollInit /\ ProxyIdle /\ TMIdle /\ MonitorIdle /\ HttpIdle /\ CheckoutIdle /\ EnvelopeIdle /\ SessionIdle /\ SeqIdle /\ EngineIdle /\ ValidateIdle /\ SweepIdle /\ DbIdle

NextPoll == 
    \/ PollStart
    \/ \E failure \in PollFailures : PollRequestFails(failure)
    \/ \E response_text \in ResponseTexts : PollResponse(response_text)
    \/ PollSleep

SpecPoll == InitPoll /\ [][NextPoll]_vars

----------------------------------------------------------------------------
(* Claims about the TaskManager, checked under SpecTM *)

Terminal == {"Completed", "Failed", "Cancelled"}

\* workers inside the select! that runs unit.execute() (line 209-217)
InExecute == {id \in TaskIds : wpc[id] \in {"select_exec", "exec_susp"}}

\* C1: at every instant the number of tasks whose stored status is Running
\* is at most max_concurrent, and at most max_concurrent units are inside
\* execute().
C1_RunningBound ==
    /\ running_tasks_count <= max_concurrent
    /\ Cardinality(InExecute) <= max_concurrent

\* the bound is reached while another worker waits for a permit
C1_Witness ==
    /\ running_tasks_count = max_concurrent
    /\ Cardinality(InExecute) = max_concurrent
    /\ \E id \in TaskIds : wpc[id] = "waiting"

\* C2: once shutdown() has set the flag, no submit_task call allocates a task
\* id, inserts a Pending result or spawns a worker (every call is refused),
\* calls that overlap shutdown() included.
C2_ShutdownRefusal ==
    [][shutdownFlag =>
          /\ task_id_counter' = task_id_counter
          /\ DOMAIN task_store' = DOMAIN task_store
          /\ \A id \in TaskIds : wpc[id] = "none" => wpc'[id] = "none"]_vars

\* C3: a task that was not Running when shutdown() set the flag never
\* transitions to Running.
C3_CancelledAtAdmission == startedInShutdown = {}

\* C4: when shutdown() returns, every task in the result store is Completed,
\* Failed or Cancelled.
C4_AllTerminalAtReturn ==
    [][(spc = "wait" /\ spc' = "returned") =>
          \A id \in DOMAIN task_store' : task_store'[id].status \in Terminal]_vars

\* the status changes get_task_result can show from one observation to the next
AllowedTransitions ==
    {<<"None", "Pending">>,
     <<"Pending", "Running">>, <<"Pending", "Cancelled">>, <<"Pending", "Failed">>,
     <<"Running", "Completed">>, <<"Running", "Failed">>, <<"Running", "Cancelled">>}

\* C5: a task observed Completed, Failed or Cancelled keeps that status in
\* every later observation, and a status only changes along Pending ->
\* Running -> {Completed, Failed, Cancelled} or Pending -> {Cancelled, Failed}.
C5_TerminalStability ==
    [][\A id \in TaskIds :
          get_task_result(id)' # get_task_result(id) =>
              <<get_task_result(id), get_task_result(id)'>> \in AllowedTransitions]_vars

\* a task was cancelled at the flag re-check and its worker has exited, and
\* another task completed
C5_Witness ==
    \E id, other \in DOMAIN task_store :
        /\ task_store[id].status = "Cancelled"
        /\ ~task_store[id].started_at
        /\ wpc[id] = "done"
        /\ task_store[other].status = "Completed"

\* C6: the ids given out by submit_task are 0, 1, 2, ... in the order of the
\* submissions: strictly increasing, and no id is given twice.
C6_IdsIncreasing ==
    /\ \A k \in 1 .. Len(issued) : issued[k] = k - 1
    /\ \A j, k \in 1 .. Len(issued) : j < k => issued[j] < issued[k]
    /\ DOMAIN task_store = {issued[k] : k \in 1 .. Len(issued)}

\* two overlapping submit_task calls have both been given their ids
C6_Witness ==
    /\ Len(issued) = 2
    /\ cpc[issued[1]] = "spawn"
    /\ cpc[issued[2]] = "spawn"

----------------------------------------------------------------------------
(* Claims about the ProxyManager, checked under SpecProxy *)

\* C7: every proxy get_next_proxy returns had its health bit true when the
\* call examined it; a proxy whose bit is false is not returned.
C7_HealthRespect ==
    [][(nreturned' = nreturned + 1 /\ last_returned' # "None") =>
          /\ last_returned' \in DOMAIN health_status
          /\ health_status[last_returned']]_vars

\* one call skipped the unhealthy first member and returned the second
C7_Witness ==
    /\ ncalls = 1
    /\ nreturned = 1
    /\ current_index = 2
    /\ "A:1" \in DOMAIN health_status /\ ~health_status["A:1"]
    /\ last_returned = "B:2"

\* C8: with every proxy healthy, the k-th sequential call on a fresh pool of
\* size n (k = 0, 1, ...) returns the proxy at index k mod n.
C8_RoundRobin ==
    (pristine /\ nreturned > 0 /\ total_proxies > 0) =>
        last_returned = proxies[((nreturned - 1) % total_proxies) + 1]

\* the third sequential call on a pool of two wrapped around to the first
C8_Witness ==
    /\ pristine
    /\ total_proxies = 2
    /\ nreturned = 3
    /\ last_returned = "A:1"

\* C9: a get_next_proxy call returns None only if no member kept its health
\* bit true during the whole call, concurrent calls included.
C9_NoneOnlyIfNoHealthy ==
    [][\A c \in ProxyCallers :
          (ppc[c] = "scan" /\ ppc'[c] = "idle") => stayedHealthy[c] = {}]_vars

----------------------------------------------------------------------------
(* Claims about the MonitorTask, checked under SpecMonitor *)

RECURSIVE TransitionEvents(_, _)
\* the events of the observations A[i .. Len(A)] under the rule "an event at
\* i exactly when A[i] differs from A[i-1], with A[0] = unavailable"
TransitionEvents(A, i) ==
    IF i > Len(A) THEN <<>>
    ELSE LET prev == IF i = 1 THEN FALSE ELSE A[i - 1]
         IN (IF A[i] # prev
             THEN <<[index |-> i, is_available |-> A[i]]>>
             ELSE <<>>) \o TransitionEvents(A, i + 1)

\* C10: an event is emitted at observation i exactly when A[i] differs from
\* A[i-1], with A[0] = unavailable, and carries is_available = A[i].
C10_EventFidelity == emitted = TransitionEvents(obs, 1)

----------------------------------------------------------------------------
(* Claims about ApiClient::request, checked under SpecHttp *)

AllAttemptsFailed == \A i \in 1 .. Len(http_trace) : ~http_trace[i].ok

\* C11: one request() call makes at most max_retries + 1 attempts; when
\* every attempt ended in a transport or body-read error, exactly
\* max_retries + 1 attempts were made and the call returns the error of the
\* last attempt.
C11_AttemptBound ==
    /\ Len(http_trace) <= retry_config.max_retries + 1
    /\ (hpc = "returned" /\ http_trace # <<>> /\ AllAttemptsFailed) =>
          /\ Len(http_trace) = retry_config.max_retries + 1
          /\ http_result =
                Some([ok |-> FALSE, error |-> http_trace[Len(http_trace)].error])
          /\ http_trace[Len(http_trace)].error[2] = retry_config.max_retries

C11_Witness ==
    /\ hpc = "returned"
    /\ retry_config.max_retries = MaxHttpRetries
    /\ Len(http_trace) = MaxHttpRetries + 1
    /\ AllAttemptsFailed
    /\ http_trace[1].error[1] = "body_read"
    /\ http_trace[Len(http_trace)].error[1] = "transport"

\* C12: as soon as an attempt yields an HTTP response, whatever its status,
\* request() returns that response as a success value; no attempt and no
\* sleep follows it.
C12_NoStatusRetry ==
    \A i \in 1 .. Len(http_trace) :
        http_trace[i].ok =>
            /\ i = Len(http_trace)
            /\ hpc = "returned"
            /\ http_result = Some([ok |-> TRUE, status |-> http_trace[i].status])
            /\ Len(http_slept) = i - 1

C12_Witness ==
    /\ hpc = "returned"
    /\ Len(http_trace) = 2
    /\ ~http_trace[1].ok
    /\ http_trace[2].ok
    /\ http_trace[2].status = 500
    /\ retry_config.max_retries = MaxHttpRetries

----------------------------------------------------------------------------
(* Claims about CheckoutEngine::instant_checkout, checked under SpecCheckout *)

\* the place of a step in the protocol
Pos(step) == CHOOSE k \in 1 .. Len(StepOrder) : StepOrder[k] = step

RequestAt(i) == co_log[i].ev = "request"

SucceededAt(step, j) == co_log[j].ev = "success" /\ co_log[j].step = step

SleptAt(step, j) == co_log[j].ev = "sleep" /\ co_log[j].step = step

SucceededBefore(step, i) == \E j \in 1 .. (i - 1) : SucceededAt(step, j)

\* the solver is part of the protocol of this checkout
ChallengeDetected == solver_args # None

\* the steps that must have succeeded before a request of step is issued
Before(step) ==
    {t \in {StepOrder[k] : k \in 1 .. (Pos(step) - 1)} :
        t = "solve_recaptcha" => ChallengeDetected}

\* C13: the requests of a checkout are issued in the order add-to-cart,
\* get-checkout-URL, set-shipping, set-payment, captcha-check, (solver call
\* when a challenge was detected), submit; no request of a step is issued
\* before every earlier step has succeeded, and success is returned only
\* after the submit step succeeded.
C13_CheckoutOrdering ==
    /\ \A i \in 1 .. Len(co_log) :
          RequestAt(i) =>
            /\ \A t \in Before(co_log[i].step) : SucceededBefore(t, i)
            /\ \A j \in 1 .. (i - 1) :
                  RequestAt(j) => Pos(co_log[j].step) <= Pos(co_log[i].step)
            /\ co_log[i].step = "solve_recaptcha" => ChallengeDetected
    /\ (co_result # None /\ co_result[1].success) =>
          /\ SucceededAt("submit_order", Len(co_log))
          /\ \A t \in Before("submit_order") : SucceededBefore(t, Len(co_log))

C13_Witness ==
    /\ co_result # None
    /\ co_result[1].success
    /\ ChallengeDetected
    /\ \E i \in 1 .. Len(co_log) : SleptAt("get_checkout_url", i)
    /\ \E i \in 1 .. Len(co_log) : SleptAt("submit_order", i)

\* C14: with the session's valid-bit false, instant_checkout returns a
\* failed result with error 'Session expired' and issues no request.
C14_Preflight ==
    ~session_is_valid =>
        /\ co_log = <<>>
        /\ copc \in {"idle", "returned"}
        /\ copc = "returned" => co_result = Some(CheckoutFailure("Session expired"))

C14_Witness ==
    /\ ~session_is_valid
    /\ copc = "returned"
    /\ checkout_config.add_to_cart_retries > 0

----------------------------------------------------------------------------
(* Claims about the crypto envelopes, checked under SpecEnvelope *)

\* the decrypt-failed error of each envelope
DecryptFailed == IF envelope = "config" THEN "DecryptionFailed" ELSE "Failed to decrypt data"

----------------------------------------------------------------------------
(* Claims about the session store, checked under SpecSession *)

\* C15: restore_session(s.id) after persist_session(s), with no write to
\* the file of that session in between or meanwhile, returns a session equal
\* to s on id, credentials, cookie set, metadata, valid-bit and timestamps.
C15_PersistRestore ==
    (rpc = "done" /\ r_expect # None) =>
        /\ restored # None
        /\ restored[1].ok
        /\ restored[1].value = r_expect[1]

C15_Witness ==
    /\ rpc = "done"
    /\ r_expect # None
    /\ restored # None
    /\ restored[1].ok
    /\ Cardinality(DOMAIN restored[1].value.cookies) = 2
    /\ ~restored[1].value.is_valid
    /\ nops = MaxSessionOps

----------------------------------------------------------------------------
(* Claims about sequential get_next_proxy calls, checked under SpecProxySeq *)

\* the calls made so far all ran in the partial-health scenario: pool
\* [A:1, B:2, C:3], fresh cursor, B:2 unhealthy and nothing else changed
InPartialHealth == partial_health /\ proxies = PartialHealthPool

\* C17: for pool [A:1, B:2, C:3] with a fresh cursor and B:2 unhealthy, five
\* sequential get_next_proxy calls return [A:1, C:3, A:1, C:3, A:1] and the
\* sixth call returns A:1.
C17_PartialHealth ==
    InPartialHealth =>
        /\ \A k \in 1 .. 5 :
              k <= Len(returned) => returned[k] = <<"A:1", "C:3", "A:1", "C:3", "A:1">>[k]
        /\ Len(returned) >= 6 => returned[6] = "A:1"

\* C17 as the code has it: the five calls return [A:1, C:3, A:1, C:3, A:1]
\* and the sixth call returns C:3.
C17_PartialHealthAmended ==
    InPartialHealth =>
        /\ \A k \in 1 .. 5 :
              k <= Len(returned) => returned[k] = <<"A:1", "C:3", "A:1", "C:3", "A:1">>[k]
        /\ Len(returned) >= 6 => returned[6] = "C:3"

\* six calls were made in the scenario
C17_Witness ==
    /\ InPartialHealth
    /\ Len(returned) = 6
    /\ current_index = 9

\* C18: each get_next_proxy call post-increments the shared cursor exactly
\* once, however many unhealthy proxies it skips, and examines at most
\* pool-size proxies.
C18_OneIncrementPerCall ==
    [][Len(returned') = Len(returned) + 1 =>
          /\ total_proxies > 0 => current_index' = current_index + 1
          /\ examined' <= total_proxies]_vars

\* C18 as the code has it: a call advances the cursor once for every proxy
\* it examines, the proxies examined are the consecutive positions from the
\* cursor the call found, there are at most pool-size of them, and all but
\* the returned one are unhealthy.
C18_OneIncrementPerExamined ==
    [][Len(returned') = Len(returned) + 1 =>
          /\ current_index' = current_index + examined'
          /\ examined' <= total_proxies
          /\ \A k \in 0 .. examined' - 1 :
                LET proxy_id == proxies[((current_index + k) % total_proxies) + 1]
                IN  IF k = examined' - 1 /\ returned'[Len(returned')] # "None"
                    THEN /\ returned'[Len(returned')] = proxy_id
                         /\ is_healthy(health_status, proxy_id)
                    ELSE ~is_healthy(health_status, proxy_id)
          /\ returned'[Len(returned')] = "None" => examined' = total_proxies]_vars

\* a call skipped two unhealthy proxies and returned the third, so that the
\* cursor stands at 3 after one call
C18_Witness ==
    /\ Len(returned) = 1
    /\ returned[1] = "C:3"
    /\ examined = 3
    /\ current_index = 3

----------------------------------------------------------------------------
(* Claims about the TaskManager's progress, checked under SpecTMFair *)

\* C19: if shutdown() is never called, every submitted task eventually
\* reaches Completed or Failed; none stays Pending or Running forever.
C19_Progress ==
    [](spc = "idle") =>
        \A id \in TaskIds :
            (id \in DOMAIN task_store) ~>
                (get_task_result(id) \in {"Completed", "Failed"})

\* with one permit and no shutdown, both tasks ended, one Completed and one
\* Failed, and the permit is back
C19_Witness ==
    /\ spc = "idle"
    /\ max_concurrent = 1
    /\ permits = 1
    /\ get_task_result(0) = "Completed"
    /\ get_task_result(1) = "Failed"
    /\ wpc[0] = "done" /\ wpc[1] = "done"

\* C20: a worker that ends on any of its own exit paths (completed, failed,
\* cancelled while waiting for a permit, at the flag re-check or during
\* execution) has removed its entry from the handle map, and shutdown()
\* takes the forced-abort branch only if some worker is still running.
C20_HandleRemoval ==
    [][/\ \A id \in TaskIds :
             (/\ wpc[id] \notin {"none", "done"}
              /\ wpc'[id] = "done"
              /\ ~(id \in aborted /\ Suspended(id)))
                 => id \notin task_handles'
       /\ (spc = "wait" /\ spc' = "returned" /\ remaining_tasks > 0)
             => \E id \in TaskIds : wpc[id] \notin {"none", "done"}]_vars

----------------------------------------------------------------------------
(* Claims about the MonitorEngine and the event receivers, checked under   *)
(* SpecEngine                                                              *)

\* C21: while the engine's running-bit is false, before start() and after
\* stop(), a monitor added to the engine performs no availability check and
\* emits no event.
C21_EngineGate ==
    [][(added /\ ~engine_is_running) =>
          /\ obs' = obs
          /\ emitted' = emitted
          /\ (mpc' = "check" => mpc = "check")]_vars

\* C22: every event a run-loop emits is delivered, in emission order, on the
\* receiver handed out for the monitor: the one add_monitor returned, and
\* likewise the one get_event_receiver returned.
C22_EventDelivery ==
    /\ added => received \o channel = emitted
    /\ own_receiver # "none" =>
          OwnChannel = SubSeq(emitted, own_from + 1, Len(emitted))

\* C23: two consecutive events delivered for the product carry different
\* is_available values, every event after the first was sent at an
\* observation that differs from the one before it, and the events are
\* delivered in the order of the observations.
C23_TransitionOrder ==
    /\ \A k \in 1 .. Len(received) :
          /\ received[k].index \in 1 .. Len(obs)
          /\ received[k].is_available = obs[received[k].index]
          /\ received[k].index > 1 =>
                obs[received[k].index] # obs[received[k].index - 1]
    /\ \A k \in 1 .. Len(received) - 1 :
          /\ received[k].is_available # received[k + 1].is_available
          /\ received[k].index < received[k + 1].index

\* three events were delivered, the second one after a repeated observation
C23_Witness ==
    /\ Len(received) = 3
    /\ received[1].index = 1
    /\ received[2].index = 3
    /\ received[3].is_available
    /\ Len(obs) > received[3].index

----------------------------------------------------------------------------
(* Further claims about instant_checkout, checked under SpecCheckout *)

\* the number of requests of a step issued so far
RequestsOf(step) ==
    Cardinality({i \in 1 .. Len(co_log) : RequestAt(i) /\ co_log[i].step = step})

FailedAt(step) == co_result = Some(CheckoutFailure(step))

\* C24: every step is retried before the checkout is declared Failed: a
\* checkout that failed at set-shipping or set-payment has attempted that
\* step more than once (set-payment payment_retries times), and one that
\* failed at a step with a retry loop has attempted it as often as its
\* retries knob says.
C24_EveryStepRetries ==
    /\ FailedAt("fill_shipping_info") => RequestsOf("fill_shipping_info") > 1
    /\ FailedAt("select_payment_method") =>
          RequestsOf("select_payment_method") = checkout_config.payment_retries
    /\ \A step \in RetrySteps :
          FailedAt(step) => RequestsOf(step) = retries(checkout_config, step)

\* the requests of a step all carry arg
RequestsCarry(step, arg) ==
    \A i \in 1 .. Len(co_log) :
        (RequestAt(i) /\ co_log[i].step = step) => co_log[i].arg = arg

\* C25: after captcha-check answered: with has_captcha = false the checkout
\* goes on to submit with no token and the solver is not called; with type
\* recaptcha_v2 and a site_key the solver is called with (site_key, page_url
\* or else the checkout URL) and its token is carried in every submit
\* request; with recaptcha_v2 without site_key, type image, or an unknown or
\* missing type the checkout fails and no submit request is issued.
C25_ChallengeBranch ==
    captcha_detection # None =>
        LET det == captcha_detection[1]
        IN  IF ~det.has_captcha
            THEN /\ captcha_token = None
                 /\ solver_args = None
                 /\ RequestsOf("solve_recaptcha") = 0
                 /\ RequestsCarry("submit_order", None)
                 /\ copc \in {"submit_order", "returned"}
                 /\ ~FailedAt("detect_captcha")
            ELSE IF det.captcha_type = Some("recaptcha_v2") /\ det.site_key # None
            THEN /\ solver_args =
                       Some(<<det.site_key[1],
                              IF det.page_url # None THEN det.page_url[1] ELSE CheckoutUrl>>)
                 /\ RequestsCarry("solve_recaptcha", solver_args[1])
                 /\ copc = "solve_recaptcha" \/ RequestsOf("solve_recaptcha") = 1
                 /\ RequestsOf("submit_order") > 0 =>
                       /\ captcha_token # None
                       /\ SucceededBefore("solve_recaptcha", Len(co_log))
                       /\ RequestsCarry("submit_order", captcha_token)
                 /\ ~FailedAt("detect_captcha")
            ELSE /\ FailedAt("detect_captcha")
                 /\ copc = "returned"
                 /\ RequestsOf("solve_recaptcha") = 0
                 /\ RequestsOf("submit_order") = 0

\* a checkout succeeded with the token of a challenge that named its own
\* page, after a submit request was retried
C25_Witness ==
    /\ captcha_detection # None
    /\ captcha_detection[1].has_captcha
    /\ captcha_detection[1].page_url = Some("PAGE")
    /\ co_result # None
    /\ co_result[1].success
    /\ RequestsOf("submit_order") = 2
    /\ captcha_token = Some("TOKEN")

\* C26: when a step has failed for good the result is Failed and no request
\* is issued afterwards: the log ends with the attempts of the failed step,
\* it holds no request of a later step, and nothing is added to it once the
\* checkout has returned.
C26_NoRequestAfterFailure ==
    [][/\ (co_result # None /\ ~co_result[1].success) =>
             /\ copc = "returned"
             /\ co_log' = co_log
             /\ co_result' = co_result
             /\ \A step \in {StepOrder[k] : k \in 1 .. Len(StepOrder)} :
                   FailedAt(step) =>
                       \A i \in 1 .. Len(co_log) :
                           RequestAt(i) => Pos(co_log[i].step) <= Pos(step)
       /\ copc = "returned" => co_log' = co_log]_vars

\* the checkout failed at set-payment, whose request is the last one issued
C26_Witness ==
    /\ FailedAt("select_payment_method")
    /\ copc = "returned"
    /\ co_log[Len(co_log)].ev = "request"
    /\ co_log[Len(co_log)].step = "select_payment_method"

----------------------------------------------------------------------------
(* A further claim about ApiClient::request, checked under SpecHttp *)

RECURSIVE Pow(_, _)
Pow(b, k) == IF k = 0 THEN 1 ELSE b * Pow(b, k - 1)

Min(a, b) == IF a < b THEN a ELSE b

RECURSIVE BackoffBound(_, _)
\* 2^R times the sum over k = 0 .. n of min(base * multiplier^k, max_delay),
\* R = max_retries, with the multiplier counted in halves
BackoffBound(cfg, n) ==
    IF n < 0 THEN 0
    ELSE Min(cfg.base_delay_ms * Pow(cfg.backoff_multiplier_halves, n),
             cfg.max_delay_ms * Pow(2, n)) * Pow(2, cfg.max_retries - n)
         + BackoffBound(cfg, n - 1)

\* C27: every sleep between two attempts is at most max_delay, the time
\* slept by one request() call is at most the sum over k = 0 .. max_retries
\* of min(base_delay * multiplier^k, max_delay), and no sleep follows the
\* final attempt.
C27_BackoffBound ==
    /\ \A i \in 1 .. Len(http_slept) : http_slept[i] <= retry_config.max_delay_ms
    /\ Sum(http_slept) * Pow(2, retry_config.max_retries)
          <= BackoffBound(retry_config, retry_config.max_retries)
    /\ Len(http_slept) <= retry_config.max_retries
    /\ hpc = "returned" => Len(http_slept) < Len(http_trace) \/ http_trace = <<>>

----------------------------------------------------------------------------
(* A claim about the valid-bit of a Session, checked under SpecValidate *)

\* C28: the valid-bit of a session only ever goes from true to false: once
\* it is false, no later operation on the session, validate_session
\* included, makes it true again.
C28_ValidMonotone ==
    [][\A id \in SessionIds :
          (live[id] # None /\ ~live[id][1].is_valid) => ~live'[id][1].is_valid]_vars

----------------------------------------------------------------------------
(* Claims about the session files, checked under SpecSweep *)

\* a blob that some persist_session wrote in full
Complete(blob) ==
    LET session_data == decrypt_data(DefaultSessionKey, blob)
    IN session_data.ok /\ from_slice(session_data.value).ok

\* C29: persist_session replaces the file atomically: the restore of a sweep
\* that runs next to a persist of the same id reads a complete blob, the
\* previous or the new one, never a partly written file; and the sweep never
\* deletes as corrupt the file of a session whose persist has returned and
\* whose last_used is not before the cutoff.
C29_AtomicReplace ==
    [][/\ rpc' = "read" => Complete(r_encrypted_data')
       /\ (sweep_pc = "delete" /\ arm = "corrupt" /\ cleaned_count' # cleaned_count)
            => LET session_id == sessions[sweep_at]
               IN ~(/\ files[session_id] # None
                    /\ stable[session_id] # None
                    /\ stable[session_id][1].last_used >= cutoff_time)]_vars

\* what restore_session returns for a file that holds blob
RestoreOf(blob) ==
    LET session_data == decrypt_data(DefaultSessionKey, blob)
    IN IF session_data.ok THEN from_slice(session_data.value)
       ELSE Err("Failed to decrypt session data")

\* the sweep has returned and no persist_session or delete_session call took
\* a step while it ran
SweptAlone ==
    /\ sweep_pc = "done"
    /\ start_mark # None
    /\ start_mark[1].nops = nops
    /\ start_mark[1].swpc = swpc

\* the files that were in the directory when the sweep began and whose
\* restore fails or gives a last_used before the cutoff
DueAtStart ==
    {id \in SessionIds :
        /\ start_mark[1].files[id] # None
        /\ LET r == RestoreOf(start_mark[1].files[id][1])
           IN ~r.ok \/ r.value.last_used < cutoff_time}

\* C30: cleanup_expired_sessions(max_age_days) deletes exactly the session
\* files whose restored last_used is before now - max_age_days or whose
\* restore fails, leaves every other file as it was, and returns the number
\* of files it deleted.
C30_CleanupExpired ==
    SweptAlone =>
        /\ \A id \in DueAtStart : files[id] = None
        /\ \A id \in SessionIds \ DueAtStart : files[id] = start_mark[1].files[id]
        /\ cleaned_count = Cardinality(DueAtStart)

\* a sweep of two files that deleted one and kept the other
C30_Witness ==
    /\ SweptAlone
    /\ cleaned_count = 1
    /\ \E id \in SessionIds : start_mark[1].files[id] # None /\ files[id] = None
    /\ \E id \in SessionIds : start_mark[1].files[id] # None /\ files[id] # None

----------------------------------------------------------------------------
(* Further claims about the TaskManager, checked under SpecTM *)

\* every spawned worker has exited
AllWorkersExited == \A id \in TaskIds : wpc[id] \in {"none", "done"}

\* C36: at every instant available_permits() plus the number of workers
\* holding a permit equals max_concurrent, and once all workers have exited,
\* on whichever path, available_permits() = max_concurrent.
C36_PermitConservation ==
    /\ permits + Cardinality(holds) = max_concurrent
    /\ AllWorkersExited => permits = max_concurrent

\* all workers have exited, one of them aborted while it was executing (its
\* result is still Running) and another after storing Completed or Failed
C36_Witness ==
    /\ AllWorkersExited
    /\ \E id \in TaskIds : wpc[id] = "done" /\ get_task_result(id) = "Running"
    /\ \E id \in TaskIds : wpc[id] = "done" /\ get_task_result(id) \in {"Completed", "Failed"}
    /\ permits = max_concurrent

\* C35: the in-flight handle map holds an entry for a task only while the
\* task's worker has not exited: whatever the interleaving of submit_task's
\* insertion with the worker's removal, no entry of an exited worker is
\* left.  Stated for the workers that ran their own removal (line 237),
\* those that stored Completed or Failed.
C35_NoStaleHandle ==
    \A id \in task_handles :
        ~(wpc[id] = "done" /\ get_task_result(id) \in {"Completed", "Failed"})

\* the fields a result must have set or unset for its status
WellFormed(r) ==
    /\ r.status = "Pending" => ~r.started_at /\ ~r.completed_at
    /\ r.status = "Running" => r.started_at /\ ~r.completed_at
    /\ r.status = "Completed" => r.started_at /\ r.completed_at /\ r.metadata
    /\ r.status = "Failed" => r.completed_at /\ r.error_message
    /\ r.status = "Cancelled" => r.completed_at

\* C37: every result in the store is well-formed for its status (Pending:
\* no started_at, no completed_at; Running: started_at, no completed_at;
\* Completed: started_at, completed_at, metadata; Failed: completed_at,
\* error_message; Cancelled: completed_at) and its task_id is its key.
C37_WellFormedResults ==
    \A id \in DOMAIN task_store :
        /\ task_store[id].task_id = id
        /\ task_store[id].status \in {"Pending", "Running", "Completed", "Failed", "Cancelled"}
        /\ WellFormed(task_store[id])

\* a store that holds a Completed result next to a Failed or Cancelled one
C37_Witness ==
    /\ \E id \in DOMAIN task_store : task_store[id].status = "Completed"
    /\ \E id \in DOMAIN task_store : task_store[id].status \in {"Failed", "Cancelled"}

----------------------------------------------------------------------------
(* A further claim about the ProxyManager, checked under SpecProxy *)

\* C32: after any sequence of set_proxy_health (for any proxy argument),
\* reset_all_health and get_next_proxy calls the health map holds exactly
\* one entry per distinct pool member, so healthy_proxies_count() is the
\* number of members whose bit is true and never exceeds total_proxies().
C32_HealthMapShape ==
    /\ DOMAIN health_status = Members
    /\ healthy_proxies_count = Cardinality({k \in Members : is_healthy(health_status, k)})
    /\ healthy_proxies_count <= total_proxies

----------------------------------------------------------------------------
(* Further claims about MonitorTask::run, checked under SpecMonitor *)

\* the last successfully observed availability
LastObserved(o) == IF o = <<>> THEN None ELSE Some(o[Len(o)])

\* C38: a tick whose check fails on every one of its max_retries + 1
\* attempts emits no event and leaves the remembered availability as it was,
\* so a successful observation is compared with the last successfully
\* observed state and an event is emitted only if it differs from it.
C38_FailedTick ==
    [][/\ (mpc = "check" /\ mpc' = "loop" /\ obs' = obs)
            => /\ attempt = max_retries
               /\ emitted' = emitted
               /\ channel' = channel
               /\ last_availability' = last_availability
       /\ obs' # obs
            => (emitted' # emitted <=> LastObserved(obs) # LastObserved(obs'))
       /\ last_availability' = LastObserved(obs')]_vars

\* three ticks, one of them failed after a retry, gave two equal
\* observations and one event
C38_Witness ==
    /\ mpc = "loop"
    /\ max_retries >= 1
    /\ nticks = 3
    /\ Len(obs) = 2
    /\ obs[1] = obs[2]
    /\ Len(emitted) = 1

\* C39: once MonitorTask::stop() has returned, the run loop starts no new
\* iteration: the next time it tests is_running it exits, whether stop() was
\* called while run() was looping, next to the start of run(), or before
\* run() was started.
C39_StopStops ==
    [][stop_returned => ~(mpc = "loop" /\ mpc' = "tick")]_vars

----------------------------------------------------------------------------
(* A further claim about the retry loops of instant_checkout, checked under
   SpecCheckout *)

\* C40: for add-to-cart, get-checkout-URL and submit, a retry count N means
\* the step is attempted at most N + 1 times, and a checkout that failed at
\* the step has attempted it at least once, also with N = 0.
C40_AttemptsPerStep ==
    \A step \in RetrySteps :
        /\ RequestsOf(step) <= retries(checkout_config, step) + 1
        /\ FailedAt(step) => RequestsOf(step) >= 1

----------------------------------------------------------------------------
(* A claim about the nonces of the session store, checked under SpecSession *)

\* the session files that hold a sealed blob
SealedFiles == {id \in SessionIds : files[id] # None /\ Len(files[id][1]) >= NonceLen}

\* the nonce a sealed blob begins with
NonceOf(blob) == Take(blob, NonceLen)

\* C31: every seal derives a fresh nonce: no two seal operations under the
\* same key use the same 12-byte nonce.  Stated for the blobs that two
\* persist_session calls of one SessionManager left in two session files.
C31_FreshNonce ==
    \A a, b \in SealedFiles : a # b => NonceOf(files[a][1]) # NonceOf(files[b][1])

----------------------------------------------------------------------------
(* A claim about the tasks table, checked under SpecDb *)

\* C33: after any sequence of insert_task, update_task_status and
\* delete_task calls every stored task record with status running has
\* started_at set, every record with status completed, failed or cancelled
\* has completed_at set, and updated_at never decreases from one update to
\* the next.
C33_TaskRecordInvariants ==
    [][\A id \in DOMAIN tasks' :
          /\ tasks'[id].status = "running" => tasks'[id].started_at # None
          /\ tasks'[id].status \in {"completed", "failed", "cancelled"}
                => tasks'[id].completed_at # None
          /\ id \in DOMAIN tasks => tasks'[id].updated_at >= tasks[id].updated_at]_vars

----------------------------------------------------------------------------
(* Claims about CaptchaSolver::poll_result *)

NotReady(e) == e.received /\ e.text = NotReadyText
IsToken(e) == e.received /\ starts_with(e.text, OkPrefix)

\* C34: one call of poll_result makes at most MAX_POLLING_ATTEMPTS result
\* requests; every request before the last one made was answered
\* CAPCHA_NOT_READY and was followed by one sleep of POLLING_INTERVAL; the first
\* answer OK|token returns that token; any other answer returns an error; the
\* MAX_POLLING_ATTEMPTS-th CAPCHA_NOT_READY returns an error with no further
\* sleep or request.
C34_PollResult ==
    LET n == Len(poll_log) IN
    /\ n <= MAX_POLLING_ATTEMPTS
    /\ \A i \in 1 .. n - 1 : NotReady(poll_log[i])
    /\ poll_pc = "request" =>
          /\ n < MAX_POLLING_ATTEMPTS
          /\ \A i \in 1 .. n : NotReady(poll_log[i])
          /\ poll_slept = POLLING_INTERVAL * n
    /\ poll_pc = "sleep" => NotReady(poll_log[n]) /\ n < MAX_POLLING_ATTEMPTS
    /\ poll_pc \in {"idle", "request", "sleep"} => poll_result = None
    /\ poll_pc = "returned" =>
          /\ n >= 1
          /\ poll_slept = POLLING_INTERVAL * (n - 1)
          /\ poll_result # None
          /\ IsToken(poll_log[n]) =>
                poll_result = Some(PollOk(strip_prefix(poll_log[n].text, OkPrefix)))
          /\ ~IsToken(poll_log[n]) => ~poll_result[1].ok
          /\ NotReady(poll_log[n]) => n = MAX_POLLING_ATTEMPTS

\* the call gave up on the MAX_POLLING_ATTEMPTS-th CAPCHA_NOT_READY
C34_Witness ==
    /\ poll_pc = "returned"
    /\ Len(poll_log) = MAX_POLLING_ATTEMPTS
    /\ NotReady(poll_log[MAX_POLLING_ATTEMPTS])
    /\ ~poll_result[1].ok

====
